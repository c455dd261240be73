---------------------------- MODULE OAuthProvider ----------------------------
(***************************************************************************)
(* An OAuth provider as service/oauth_refresh_api.go uses it: a user's      *)
(* authorisation (a grant) has one valid refresh token at a time, and each *)
(* use replaces it.  A credentials document holds the tokens of one turn of *)
(* a grant, and the version under which the program stored them.            *)
(***************************************************************************)
EXTENDS Integers

CONSTANTS
    MaxGrants, \* bound: authorisations after the first
    MaxTurns   \* bound: uses of a grant

ASSUME ProviderAssumption == {MaxGrants, MaxTurns} \subseteq Nat

VARIABLES
    newest, \* the last grant
    current \* the turn of each grant whose refresh token is valid

Grants == 0 .. MaxGrants
Revoked == -1
Document == [grant : Grants, turn : 0 .. MaxTurns, version : Nat]
First == [grant |-> 0, turn |-> 0, version |-> 0]

ProviderInit == newest = 0 /\ current = [g \in Grants |-> IF g = 0 THEN 0 ELSE Revoked]

\* The provider accepts the refresh token of document d.
Live(d) == current[d.grant] = d.turn
SameToken(d, e) == d.grant = e.grant /\ d.turn = e.turn

\* What the provider returns for d, stored as version v.
\* MUTANT: the version of the next document.
SuccessorAhead(d, v) == [grant |-> d.grant, turn |-> d.turn + 1, version |-> v + 1]
Successor(d, v) == [grant |-> d.grant, turn |-> d.turn + 1, version |-> v]
Rotate(d) ==
    /\ Live(d) /\ d.turn < MaxTurns
    /\ current' = [current EXCEPT ![d.grant] = @ + 1]
    /\ UNCHANGED newest

\* The user authorises again; the provider may end the earlier grants.
Authorise ==
    /\ newest < MaxGrants /\ newest' = newest + 1
    /\ \E ended \in BOOLEAN :
         current' = [g \in Grants |-> CASE g = newest' -> 0
                                        [] g # newest' /\ ended -> Revoked
                                        [] OTHER -> current[g]]

EndGrant(g) ==
    /\ g <= newest /\ current[g] # Revoked
    /\ current' = [current EXCEPT ![g] = Revoked]
    /\ UNCHANGED newest
=============================================================================

------------------------------ MODULE Membership ------------------------------
(***************************************************************************)
(* What the family pages promise to a user, in one step per operation: a  *)
(* family is founded, a user joins a family that exists and makes it the  *)
(* current one, a user switches to a family already joined.  Nothing ever *)
(* leaves a family.  FamilyPages is shown to implement this module when a *)
(* user has one device, with one operation at a time, and the server      *)
(* refuses no write but those of channels.                                *)
(***************************************************************************)
CONSTANTS User,       \* the accounts
          FamilyId,   \* the identifiers of families
          NoFamily    \* the empty string a new account has for its familyId

VARIABLES existing,   \* the families that have a document
          members,    \* members[u]: the families u has joined
          current     \* current[u]: the family u is looking at

vars == <<existing, members, current>>

Init == /\ existing = {}
        /\ members = [u \in User |-> {}]
        /\ current = [u \in User |-> NoFamily]

Found(f) == /\ existing' = existing \cup {f}
            /\ UNCHANGED <<members, current>>

Join(u, f) == /\ f \in existing
              /\ members' = [members EXCEPT ![u] = @ \cup {f}]
              /\ current' = [current EXCEPT ![u] = f]
              /\ UNCHANGED existing

Switch(u, f) == /\ f \in members[u]
                /\ current' = [current EXCEPT ![u] = f]
                /\ UNCHANGED <<existing, members>>

Next == \/ \E f \in FamilyId : Found(f)
        \/ \E u \in User, f \in FamilyId : Join(u, f) \/ Switch(u, f)

Spec == Init /\ [][Next]_vars
===============================================================================

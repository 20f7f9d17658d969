------------------------- MODULE FamilyPagesProperties ------------------------
(***************************************************************************)
(* What the family pages should guarantee.                                 *)
(***************************************************************************)
EXTENDS FamilyPages

\* The user uses no other device, and was never quicker than the panel on this one.
Sole(d) == /\ \A e \in Device : Owner[e] = Owner[d] => e = d
           /\ d \notin overlapped

\* Every family on record for a user has a document: joinTapped looks for it
\* first (JoinFamilyViewController:45) and createTapped writes it first.
FamilyKnown ==
  \A u \in User : /\ users[u].families \subseteq family
                  /\ users[u].familyId \in family \cup {NoFamily}

\* A family the app said the user had joined stays on the user's record
\* (User:26, "all family user joined").
ConfirmedKept == \A u \in User : confirmed[u] \subseteq users[u].families

\* The same for a user with one device whose operations do not overlap, whatever
\* the server refuses and whenever the app is restarted between the read of the
\* list and its write.
SoleConfirmedKept ==
  \A d \in Device : Sole(d) => confirmed[Owner[d]] \subseteq users[Owner[d]].families

\* No write of such a user takes a family off that user's record:
\* the list is written whole, from a read that is older than the write.
SoleNeverLeaves ==
  [][\A d \in Device : Sole(d) =>
       users[Owner[d]].families \subseteq users'[Owner[d]].families]_vars

\* A chat channel belongs to a family that has a document, although nobody
\* waits for the write of the channel (CreateFamilyViewController:48-54).
ChannelOfFamily == \A f \in FamilyId : channels[f] > 0 => f \in family

\* An operation that has started ends: in success, in an error, or in the panel
\* that FamiliesNotRead leaves.
Answered == \A t \in Task : UnderWay(t) ~> ~UnderWay(t)

\* With one device per user, one operation at a time, and no refusals but those
\* of channels, the pages implement Membership.
Abstract == INSTANCE Membership
              WITH existing <- family,
                   members <- [u \in User |-> users[u].families],
                   current <- [u \in User |-> users[u].familyId]

ImplementsMembership == Abstract!Spec
===============================================================================

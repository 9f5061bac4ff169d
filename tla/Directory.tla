-------------------------------- MODULE Directory --------------------------------
(***************************************************************************)
(* What students find: the search of tutors by subject and level, and a    *)
(* tutor's profile, over the offers of two tutors and what module Approval *)
(* keeps of one of them.                                                   *)
(*                                                                         *)
(* An offer is written in lower case, and so is the subject that is looked *)
(* for.  Every tutor has one post code here; prices are the set of levels  *)
(* with a price, and ratings the reviews that they are the average of.     *)
(***************************************************************************)
EXTENDS Approval

CONSTANTS
  Tutors, TheTutor,  \* TheTutor is the one of module Approval
  Subjects, Levels,
  MaxOffers          \* bound on rows of table SubjectOffer

ASSUME DirectoryAssumption == TheTutor \in Tutors /\ MaxOffers \in Nat

VARIABLES
  offers,      \* table SubjectOffer, by id
  blocked,     \* tutors whose user is blocked
  deActivated  \* tutors with deActivate in their row

directoryVars == <<vars, offers, blocked, deActivated>>

\* A title as it is written: is any letter a capital?
Title == [subject : Subjects, capital : BOOLEAN]
Lower(title) == [title EXCEPT !.capital = FALSE]
SubjectOffer == [tutor : Tutors, title : Title, levels : SUBSET Levels, there : BOOLEAN]

DirectoryInit == Init /\ offers = <<>> /\ blocked = {} /\ deActivated = {}

-----------------------------------------------------------------------------
(* Offers                                                                  *)

CreateOffer(t, title, levels) ==
  /\ Counted
  /\ Len(offers) < MaxOffers
  /\ offers' = Append(offers, [tutor |-> t, title |-> Lower(title), levels |-> levels, there |-> TRUE])
  /\ UNCHANGED <<tutorRows, refereeRows, request, history, uploads, faults, blocked,
                 deActivated>>

\* The offer is read to check its owner, who never changes.
CheckOffer(t, i) == offers[i].there /\ offers[i].tutor = t

\* Slip: the title is stored as it was written.
UpdateOfferAsWritten(t, i, title, levels) ==
  /\ Counted
  /\ CheckOffer(t, i)
  /\ offers' = [offers EXCEPT ![i].title = title, ![i].levels = levels]
  /\ UNCHANGED <<tutorRows, refereeRows, request, history, uploads, faults, blocked,
                 deActivated>>

UpdateOffer(t, i, title, levels) ==
  /\ Counted
  /\ CheckOffer(t, i)
  /\ offers' = [offers EXCEPT ![i].title = Lower(title), ![i].levels = levels]
  /\ UNCHANGED <<tutorRows, refereeRows, request, history, uploads, faults, blocked,
                 deActivated>>

RemoveOffer(t, i) ==
  /\ Counted
  /\ CheckOffer(t, i)
  /\ offers' = [offers EXCEPT ![i].there = FALSE]
  /\ UNCHANGED <<tutorRows, refereeRows, request, history, uploads, faults, blocked,
                 deActivated>>

\* The admin's page of users by block status, and what the admin may do to one of each page.
AllUsers(status) == IF status = "BLOCKED" THEN blocked ELSE Tutors \ blocked

UpdateBlockStatus(t) ==
  /\ Counted
  /\ \/ t \in AllUsers("BLOCKED") /\ blocked' = blocked \ {t}
     \/ t \in AllUsers("UNBLOCKED") /\ blocked' = blocked \cup {t}
  /\ UNCHANGED <<tutorRows, refereeRows, request, history, uploads, faults, offers,
                 deActivated>>

\* PATCH /tutor sets deActivate if the body names it; DELETE /tutor, which answers
\* 'Tutor deactivated', stores nothing.
DeActivate(t, value) ==
  /\ IF t = TheTutor THEN \E body \in Bodies, confirmed \in BOOLEAN : UpdateTutor(body, confirmed)
     ELSE /\ Counted
          /\ UNCHANGED <<tutorRows, refereeRows, request, history, uploads, faults>>
  /\ deActivated' = IF value THEN deActivated \cup {t} ELSE deActivated \ {t}
  /\ UNCHANGED <<offers, blocked>>

DirectoryNext ==
  \/ Next /\ UNCHANGED <<offers, blocked, deActivated>>
  \/ \E t \in Tutors, title \in Title, levels \in SUBSET Levels :
       \/ CreateOffer(t, title, levels)
       \/ \E i \in DOMAIN offers : UpdateOffer(t, i, title, levels)
  \/ \E t \in Tutors, i \in DOMAIN offers : RemoveOffer(t, i)
  \/ \E t \in Tutors : UpdateBlockStatus(t) \/ \E value \in BOOLEAN : DeActivate(t, value)

DirectorySpec == DirectoryInit /\ [][DirectoryNext]_directoryVars

-----------------------------------------------------------------------------
(* Pages                                                                   *)

OffersOf(t) == {i \in DOMAIN offers : offers[i].there /\ offers[i].tutor = t}
RefereesOf(t) == {i \in DOMAIN referees : t = TheTutor /\ referees[i].there}

GetTutorProfile(t) ==
  [subjects |-> {[title |-> offers[i].title, levels |-> offers[i].levels] : i \in OffersOf(t)},
   reviews |-> {<<referees[i].email, referees[i].review>> : i \in RefereesOf(t)}]

\* A level that is none of the code's makes the search fail.
FilterTutor(title, level) ==
  {[tutor |-> t, rated |-> {i \in RefereesOf(t) : referees[i].review}] :
     t \in {u \in Tutors \ (blocked \cup deActivated) : \E i \in OffersOf(u) :
              offers[i].title = Lower(title) /\ level \in offers[i].levels}}

-----------------------------------------------------------------------------
(* Properties                                                              *)

DirectoryTypeOK ==
  /\ TypeOK
  /\ offers \in Seq(SubjectOffer) /\ Len(offers) <= MaxOffers
  /\ blocked \cup deActivated \subseteq Tutors

\* Search and profile agree, however offers are written: every offer of a tutor who
\* is neither blocked nor deactivated is found under its subject in either case and
\* each of its levels, whoever is found offers it on the profile, and is rated by the
\* reviews shown there.
DirectoryAgrees ==
  \A title \in Title, level \in Levels :
    LET found == FilterTutor(title, level)
    IN /\ \A i \in DOMAIN offers :
            /\ offers[i].there /\ offers[i].title.subject = title.subject
            /\ level \in offers[i].levels
            /\ offers[i].tutor \notin blocked \cup deActivated
            => \E r \in found : r.tutor = offers[i].tutor
       /\ \A r \in found :
            LET profile == GetTutorProfile(r.tutor)
            IN /\ \E s \in profile.subjects : s.title.subject = title.subject /\ level \in s.levels
               /\ \A i \in r.rated : <<referees[i].email, TRUE>> \in profile.reviews
================================================================================

------------------------------- MODULE MCFeedback -------------------------------
(* User 1 is a tutor and users 2 and 3 are students: the row of student 3 has   *)
(* the id of user 2.                                                            *)
EXTENDS Feedback, TLC

OneTutor == {1}
TwoStudents == {2, 3}
TutorRows == 1 :> 1
StudentRows == 2 :> 1 @@ 3 :> 2
=================================================================================

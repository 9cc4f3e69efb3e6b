--------------------------- MODULE ProfileUpdate ---------------------------
(***************************************************************************)
(* AuthService.UpdateProfile: reads the user's row, replaces the profile   *)
(* fields that were sent, and saves the whole row, the donation total too. *)
(***************************************************************************)
EXTENDS Database

ReceiveProfile(r) == \E c \in ProfileCalls : Arrive(r, c, TRUE)

ReadUser(r) ==
  /\ At(r, "profile")
  /\ FreeConnection
  /\ ReadUserRow(r, call[r].user)
  /\ Goto(r, "profileRead")
  /\ UNCHANGED <<tables, call, reply, seenProject, contestedProjects>>

SaveProfile(r) ==
  /\ At(r, "profileRead")
  /\ FreeConnection
  /\ MayWriteUser(r)
  /\ users' = [users EXCEPT ![call[r].user] =
                 [seenUser[r] EXCEPT !.profile = call[r].profile]]
  /\ Goto(r, "profileSaved")
  /\ UNCHANGED <<projects, raised, given, call, reply, seen, contested>>

AnswerProfile(r) == At(r, "profileSaved") /\ Reply(r, "ok")

UpdateProfile(r) == ReadUser(r) \/ SaveProfile(r) \/ AnswerProfile(r)
=============================================================================

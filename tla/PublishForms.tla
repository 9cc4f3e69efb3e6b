---------------------------- MODULE PublishForms ----------------------------
(***************************************************************************)
(* The forms of an organization: a new project (CreateProject.tsx) and     *)
(* news of one of its projects (CreateUpdate.tsx).                         *)
(***************************************************************************)
EXTENDS Views

(* Mutant: the button stays enabled while a request is on its way.         *)
Submit_Enabled(s, kind) ==
  /\ busy' = TRUE
  /\ Send(s, kind, None, "approved")
  /\ UNCHANGED <<page, list, data, desk>>

(* The button of the form is disabled while its request is on its way.     *)
Submit(s, kind) ==
  /\ ~ busy
  /\ busy' = TRUE
  /\ Send(s, kind, None, "approved")
  /\ UNCHANGED <<page, list, data, desk>>

SubmitProject(s) == page = "create-project" /\ Submit(s, "project")

(* The form appears once the organization's projects are loaded, or have   *)
(* failed to; without a chosen project an alert is all that happens.       *)
SubmitUpdate(s) == page = "create-update" /\ ~ loading /\ Submit(s, "update")

(* Only projects: news is sent with images as an array, where the handler  *)
(* binds a string, so it is always refused.                                *)
Publish(s) ==
  /\ posts[s] # None /\ posts[s].kind = "project" /\ posts[s].settled = "no"
  /\ posts' = [posts EXCEPT ![s].settled = "done"]
  /\ UNCHANGED <<page, list, data, busy, desk>>

(* The author is taken to the list, also from the page they have gone to.  *)
HearPublished(s) ==
  LET rest == [posts EXCEPT ![s] = None] IN
  /\ posts[s] # None /\ posts[s].kind = "project" /\ posts[s].settled = "done"
  /\ IF page = "projects"
     THEN posts' = rest /\ UNCHANGED <<page, list, data, busy, done>>
     ELSE Show("projects", rest)
  /\ UNCHANGED status

FormStep == \E s \in Posts : SubmitProject(s) \/ SubmitUpdate(s) \/ Publish(s)
=============================================================================

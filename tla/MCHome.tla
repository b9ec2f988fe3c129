------------------------------- MODULE MCHome -------------------------------
(* One station that comes and goes, a switch to another, a watched pane,    *)
(* the home screen over three missions, and the native sessions and the     *)
(* transcript of one mission.                                               *)
EXTENDS HomeScreen, NativeSessions

MCMixes == {"life", "leave", "switch", "watch", "home", "native", "ask"}

allVars == <<vars, sessionVars>>

MCInit == Init /\ HomeInit /\ SessionInit

MCNext ==
    \/ Next /\ UNCHANGED sessionVars
    \/ mix = "native" /\ SessionNext /\ UNCHANGED vars
    \/ mix = "ask" /\ ProviderLogs /\ UNCHANGED vars

MCSpec ==
    /\ MCInit /\ [][MCNext]_allVars
    /\ WF_vars(PollTakes /\ UNCHANGED sessionVars) /\ WF_vars(PollStarts /\ UNCHANGED sessionVars)
    /\ WF_vars(Load /\ UNCHANGED sessionVars) /\ WF_vars(Publish /\ UNCHANGED sessionVars)
\* An operator who is told that a provider waits finds it waiting: in the pane
\* (read_native_provider_wait) and in the transcript (pending_operator_questions).
WaitIsReal == WaitIsSeen /\ QuestionIsOpen
=============================================================================

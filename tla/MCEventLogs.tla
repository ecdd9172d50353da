----------------------------- MODULE MCEventLogs -----------------------------
(***************************************************************************)
(* The three ways in which events travel, in one run of TLC: the stream to  *)
(* a client, the log of a chat session and the ingestion of an agent task's *)
(* activity.  The modules share no variable: the first state says which of  *)
(* them moves, so that each is explored completely and their products are   *)
(* not.  Fairness is that of the module that moves.                         *)
(***************************************************************************)
EXTENDS SnapshotFeed, SessionLog, ActivityIngestion

VARIABLE system

AllKinds == {"silent", "step", "halted", "ended"}

LogsInit ==
    /\ system \in {"feed", "session", "ingestion"}
    /\ FeedInit /\ SessionLogInit /\ IngestionInit
LogsNext ==
    \/ system = "feed" /\ FeedNext /\ UNCHANGED <<system, sessionLogVars, ingestionVars>>
    \/ system = "session" /\ SessionLogNext /\ UNCHANGED <<system, feedVars, ingestionVars>>
    \/ system = "ingestion" /\ IngestionNext /\ UNCHANGED <<system, feedVars, sessionLogVars>>

\* The fairness of the modules: an action is enabled only in its system.
LogsFairness ==
    /\ \A c \in Connections : WF_feedVars(system = "feed" /\ ConnectionStep(c))
    /\ WF_feedVars(system = "feed" /\ TimerStep)
    /\ WF_sessionLogVars(system = "session" /\ RunGoesOn)
    /\ WF_sessionLogVars(system = "session" /\ SagaGoesOn)
    /\ WF_sessionLogVars(system = "session" /\ ComesUp)
    /\ WF_ingestionVars(system = "ingestion" /\ IngesterStep)
    /\ WF_ingestionVars(system = "ingestion" /\ CoordinatorStep)

LogsSpec ==
    LogsInit /\ [][LogsNext]_<<system, feedVars, sessionLogVars, ingestionVars>> /\ LogsFairness

\* The rows, buffers and cursors of the three logs are of their types.
LogsTypeOK == FeedTypeOK /\ SessionLogTypeOK /\ IngestionTypeOK

=============================================================================

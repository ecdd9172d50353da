---------------------------- MODULE MCAgentTasks ----------------------------
(* Model values for AgentTasks: one task that shares a permit with chats. *)
EXTENDS AgentTasks

CONSTANTS t1, chat, c1

OneTask      == {t1}
TaskAndChat == {t1, chat}

=============================================================================

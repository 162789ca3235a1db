-------------------------- MODULE MCDomainExecutor --------------------------
(***************************************************************************)
(* Three tool calls: shutdown_agent (confirmed, ends the session), a       *)
(* start_monitoring_session, and a repeat of it that a second client sends *)
(* while the first may still be running.                                   *)
(***************************************************************************)
EXTENDS DomainExecutor

CONSTANTS shutdown, begin, again, h1, h2

MCProposals  == {shutdown, begin, again}
MCSignatures == {h1, h2}
MCSigOf      == [p \in Proposals |-> IF p = shutdown THEN h1 ELSE h2]
MCConfirm    == {shutdown}
MCAllowedIn  == [p \in Proposals |->
                   IF p = again THEN {"IDLE", "MONITORING"} ELSE AgentStateSet]
MCEffect     == [p \in Proposals |->
                   IF p = shutdown THEN "close" ELSE "open"]

=============================================================================

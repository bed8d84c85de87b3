-------------------------- MODULE MCConsoleSession --------------------------
EXTENDS ConsoleSession
CONSTANTS w1, w2, chief, clerk

\* The clerk of a tenant may only read the audit log, whose page is for the
\* platform level: nothing of the menu is visible to it.
MCGrants ==
  [a \in {chief, clerk} |->
    IF a = chief
    THEN [codes |-> {"dashboard:view", "audit:read"},
          scope |-> [tenant |-> "none", brand |-> "none", agent |-> "none"]]
    ELSE [codes |-> {"audit:read"},
          scope |-> [tenant |-> "t1", brand |-> "none", agent |-> "none"]]]
MCDestinations == {"/", "/audit"}
=============================================================================

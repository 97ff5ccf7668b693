-------------------------- MODULE MCSessionManager --------------------------
(* Small instances of SessionManager for TLC. *)
EXTENDS SessionManager

CONSTANTS a, g

TwoChats == {a, g}
OneGroup == {g}

\* Runs about the connection, runs about chats with a quiet network, and the commands
\* that wait or need a client.
ConnectionOrChats ==
    {[commands |-> {"login", "disconnect", "logout", "reset"}, most |-> 1, network |-> TRUE],
     [commands |-> {"login", "disconnect"}, most |-> 3, network |-> FALSE],
     [commands |-> {"create", "send", "download", "revoke"}, most |-> 2, network |-> FALSE],
     [commands |-> {"select", "read", "leave"}, most |-> 3, network |-> FALSE],
     [commands |-> {"select", "media", "backlog", "subject", "participants"}, most |-> 2,
      network |-> FALSE]}
AloneAtNight == {[commands |-> {}, most |-> 0, network |-> TRUE]}
LoginsAndLogouts == {[commands |-> {"login", "disconnect"}, most |-> 4, network |-> FALSE]}
=============================================================================

----------------------------- MODULE MCStartup ------------------------------
(* A small instance of the startup for TLC. *)
EXTENDS StartupProps

Section(worker_num, queue_size, max_request_size, max_connections) ==
    [worker_num |-> worker_num, queue_size |-> queue_size,
     max_request_size |-> max_request_size, max_connections |-> max_connections]

(* Every limit of the section, from both sides *)
BoundarySettings ==
    {Section(w, 128, 2000, 1) : w \in {-1, 0, 1, 2, 120}}
    \cup {Section(1, q, 2000, 1) : q \in {0, 127, 40960, 40961}}
    \cup {Section(2, 0, r, 1) : r \in {-1, 0, 1, 133, 134, 266, 5000, 5001}}
    \cup {Section(1, 128, 134, m) : m \in {-1, 0}}
=============================================================================

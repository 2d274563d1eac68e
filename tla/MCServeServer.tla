--------------------------- MODULE MCServeServer ---------------------------
(* TLC's instance of ServeServer: a work queue, whose Close waits for its runs, is
   released before a peer endpoint, whose Close does not.  The queue's work waits for
   its one slot; the peer gets none and may break. *)
EXTENDS ServeServer, TLC

TheChannels == <<"queue", "peer">>
TheFrom == [w \in Work |-> "queue"]
TheSlots == [ch \in {"queue", "peer"} |-> 1]
=============================================================================

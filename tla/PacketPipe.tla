------------------------------ MODULE PacketPipe ------------------------------
(* What a connection promises for the packets of its client: they are        *)
(* handled as they were sent, each once and in order, up to the end of the   *)
(* connection.                                                               *)
EXTENDS Sequences

CONSTANT Packets

VARIABLES waiting, handled, open

pipeVars == <<waiting, handled, open>>

PipeInit == waiting = <<>> /\ handled = <<>> /\ open = TRUE

PipeSend ==
    /\ \E p \in Packets : waiting' = Append(waiting, p)
    /\ UNCHANGED <<handled, open>>

PipeHandle ==
    /\ open /\ waiting # <<>>
    /\ handled' = Append(handled, Head(waiting))
    /\ waiting' = Tail(waiting)
    /\ UNCHANGED open

PipeClose ==
    /\ open /\ open' = FALSE
    /\ UNCHANGED <<waiting, handled>>

PipeNext == PipeSend \/ PipeHandle \/ PipeClose

PipeSpec == PipeInit /\ [][PipeNext]_pipeVars
==============================================================================

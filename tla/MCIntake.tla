------------------------------ MODULE MCIntake ------------------------------
(* Small instances of Intake for TLC. *)
EXTENDS Intake, TLC

CONSTANTS w1, w2

Calm == [workers |-> {w1}, events |-> 2, held |-> 2, switches |-> 0, mutes |-> 0, blocks |-> FALSE,
         open |-> FALSE, asks |-> 0, fails |-> FALSE,
         modelless |-> FALSE, crashes |-> 0]

EachPart == {
    \* a stranger whom the owner lets in, or does not, while the channel is switched
    [Calm EXCEPT !.events = 3, !.crashes = 1, !.fails = TRUE],
    [Calm EXCEPT !.switches = 2, !.blocks = TRUE, !.crashes = 1],
    [Calm EXCEPT !.mutes = 2, !.crashes = 1],
    [Calm EXCEPT !.events = 3, !.held = 1],
    [Calm EXCEPT !.workers = {w1, w2}, !.crashes = 1, !.blocks = TRUE],
    \* two processes on the messages of someone let in, whom the agent asks, or the owner pauses
    [Calm EXCEPT !.workers = {w1, w2}, !.open = TRUE, !.asks = 1, !.crashes = 1],
    [Calm EXCEPT !.workers = {w1, w2}, !.open = TRUE, !.switches = 2, !.asks = 1],
    [Calm EXCEPT !.workers = {w1, w2}, !.open = TRUE, !.mutes = 2],
    \* two processes, and no model at times
    [Calm EXCEPT !.workers = {w1, w2}, !.open = TRUE, !.modelless = TRUE, !.crashes = 1],
    [Calm EXCEPT !.open = TRUE, !.modelless = TRUE, !.mutes = 2, !.fails = TRUE],
    [Calm EXCEPT !.modelless = TRUE, !.asks = 1, !.crashes = 1],
    \* one process and two questions
    [Calm EXCEPT !.open = TRUE, !.asks = 2, !.fails = TRUE, !.crashes = 1]}
=============================================================================

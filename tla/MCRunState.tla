----------------------------- MODULE MCRunState -----------------------------
(* Instances of the history for the model checker: two nodes, so that one may
   fire while the other does not. *)
EXTENDS RunState

Two == <<"a", "b">>

\* Of each node one firing puts out None, early enough to leave the window; an
\* impure replay of it does not.
Plain ==
  [persistent |-> TRUE, keep_records |-> TRUE, pure |-> TRUE,
   midtick |-> FALSE, crashes |-> FALSE, forks |-> FALSE,
   silent |-> {[tick |-> 0, node |-> "a", epoch |-> 0], [tick |-> 1, node |-> "b", epoch |-> 0]}]

\* What is promised: on disk a replay is pure and stays with its backend, in
\* memory anything goes.
SoundModes ==
  {[Plain EXCEPT !.midtick = TRUE],
   [Plain EXCEPT !.crashes = TRUE],
   [Plain EXCEPT !.persistent = FALSE, !.pure = FALSE, !.midtick = TRUE, !.forks = TRUE],
   [Plain EXCEPT !.persistent = FALSE, !.pure = FALSE, !.keep_records = FALSE, !.forks = TRUE]}

PlainMode  == {Plain}

=============================================================================

----------------------- MODULE MCPersistenceCoordinator -----------------------
(* Instances of PersistenceCoordinator for TLC. *)
EXTENDS PersistenceCoordinator

CONSTANTS past, repairs, import

Start(events, open, hot, births, asks, appends, failures, calls) ==
  [stored |-> events, unclean |-> open, live |-> hot,
   left |-> [births |-> births, asks |-> asks, events |-> appends,
             failures |-> failures, calls |-> calls]]

\* Nothing stored; a log, closed or cut short; a live session that is ahead of
\* its log when the plugin is reloaded.
MCStarts == {
  Start(<<>>, FALSE, <<>>, 2, 0, 1, 1, 0),
  Start(<<>>, FALSE, <<>>, 2, 0, 1, 0, 1),
  Start(<<>>, FALSE, <<>>, 0, 1, 0, 0, 3),
  Start(<<past>>, FALSE, <<>>, 1, 2, 1, 0, 0),
  Start(<<past>>, FALSE, <<>>, 1, 1, 0, 0, 1),
  Start(<<past>>, TRUE, <<>>, 1, 1, 1, 0, 0),
  Start(<<past>>, TRUE, <<>>, 0, 2, 0, 1, 1),
  Start(<<past>>, FALSE, <<past, 1>>, 0, 1, 1, 1, 0),
  Start(<<past>>, FALSE, <<past, 1>>, 0, 0, 1, 0, 1)}
=============================================================================

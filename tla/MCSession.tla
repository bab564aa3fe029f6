------------------------------ MODULE MCSession ------------------------------
(* Session with the bounds and the kinds of its TLC runs. *)
EXTENDS Session

\* The feeds of sequential callers: feed_created has an action of its own.
SequentialFeeds == FeedKind \ {"created"}

AllReports == ReportKind

=============================================================================

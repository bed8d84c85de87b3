--------------------------- MODULE MCConsolePages ---------------------------
EXTENDS ConsolePages

\* Two calls of one page at a time, or a page whose selection changes.
MCBudgets ==
  {[moves |-> 0, clicks |-> 4, pending |-> 2], [moves |-> 1, clicks |-> 3, pending |-> 1]}

\* The state with its page and route by their keys, which name them: no two
\* states have the same view, and TLC has less of each to look at.
MCView ==
  <<page.key, list, user, budget, IF route = None THEN None ELSE route.key, selection, moves, log,
    cache, must, dialog, confirm, form, clicks, pending, applied, lost, refusals>>
=============================================================================

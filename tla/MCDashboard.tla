----------------------------- MODULE MCDashboard -----------------------------
(* Instances of Dashboard: rows that every control tells apart, and sets of *)
(* keys that are used together.                                             *)
EXTENDS Dashboard

Row(method, status, duration, path, words, lines) ==
  [ method |-> method, status |-> status, duration |-> duration,
    path |-> path, words |-> words, lines |-> lines ]

Quick == Row("GET", 200, 12, 1, 1, 2)
Slow == Row("POST", 404, 700, 0, 1, 3)
Failing == Row("HEAD", 503, 1, 0, 0, 7)

Scenario(keys, kinds, maxRows) ==
  [ keys |-> keys, kinds |-> kinds, maxRows |-> maxRows,
    maxFailures |-> 1, maxFiles |-> 2 ]
Calm(calm) == [calm EXCEPT !.maxFailures = 0, !.maxFiles = 1]

\* Tabs, orders and the selection; the search; the two ways to fill in the
\* filters; the detail, of more rows than the list shows.
AllSettings ==
  [ browsing |-> Scenario({"down", "up", "tab", "s", "enter", "r"}, {Quick, Slow}, 2),
    searching |-> Scenario({"/", "j", "2", "backspace", "enter", "esc", "ctrlC"},
                           {Quick, Failing}, 2),
    choosing |-> Calm(Scenario({"f", "right", "up", "delete", "enter"}, {Slow}, 1)),
    typing |-> Scenario({"f", "down", "1", "backspace", "delete", "esc", "enter",
                         "ctrlC"}, {Quick}, 1),
    inspecting |-> Scenario({" ", "j", "k", "q", "esc", "pageDown", "pageUp", "3"},
                            {Failing}, 3) ]
=============================================================================

----------------------------- MODULE MCConsole ------------------------------
(***************************************************************************)
(* Two requests at a time, in menus of requests that meet.                 *)
(***************************************************************************)
EXTENDS Console

On(kinds, people, owners, number) ==
  [kinds |-> kinds, people |-> people, owners |-> owners, filters |-> DOMAIN Queries, calls |-> number]
With(filters, m) == [m EXCEPT !.filters = filters]
ConsoleMenus ==
  { On({"send", "verify", "late"}, {1}, <<>>, 4),
    On({"send", "verify", "google", "crash"}, {1}, <<>>, 4),
    On({"invite", "remove"}, {1, 2, 3, 4}, <<1, 1>>, 3),
    On({"google", "logout", "suspend", "reset", "impersonate", "tick"}, {1}, <<1>>, 3),
    On({"invite", "found", "delete", "google"}, {1, 2, 3}, <<1>>, 3),
    On({"delete", "impersonate", "suspend"}, {}, <<1, 1, 1>>, 2),
    On({"remove", "role"}, {1, 2, 3}, <<1, 1>>, 3),
    On({"niche", "password"}, {}, <<1, 2>>, 2),
    On({"niche"}, {}, <<1, 2, 1>>, 1),
    On({"view", "password"}, {}, <<1, 2, 1>>, 2),
    On({"single", "boot", "password"}, {}, <<1, 2>>, 3),
    On({"config", "crash"}, {}, <<1, 2>>, 3),
    On({"metric"}, {}, <<1, 2>>, 4),
    On({"regen_body", "mailing", "password"}, {}, <<1>>, 2),
    On({"verify_email", "rescore_icp", "regen_hook", "reextract", "rejudge", "close"}, {}, <<1>>, 1),
    On({"list", "kpis", "password"}, {}, <<1, 2>>, 1),
    With({2, 5}, On({"list", "rescore_icp"}, {}, <<1>>, 2)),
    With({2}, On({"kpis", "rescore_icp"}, {}, <<1>>, 2)),
    On({"page"}, {}, <<1>>, 4),
    On({"page", "panel"}, {}, <<1>>, 3),
    On({"leads page"}, {}, <<1>>, 3),
    On({"leads page", "bulk"}, {}, <<1>>, 2),
    On({"leads page", "again"}, {}, <<1>>, 2) }

\* The second has no pending mail: it was rejected.
TwoLeads == {{1, 2}}

Filter(prio, low, high, mode, signals, tech) ==
  [prio |-> prio, min |-> low, max |-> high, mode |-> mode, signals |-> signals, tech |-> tech]
SevenFilters ==
  << Filter({}, 0, 0, "hide", 0, FALSE), Filter({"A"}, 0, 0, "hide", 0, FALSE),
     Filter({"A", "C"}, 0, 0, "all", 0, FALSE), Filter({"B"}, 1, 0, "all", 0, FALSE),
     Filter({"B", "C"}, 2, 3, "all", 0, FALSE), Filter({"A", "B"}, 0, 2, "only", 1, TRUE),
     Filter({}, 0, 0, "all", 0, FALSE) >>
=============================================================================

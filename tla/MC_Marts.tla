------------------------------ MODULE MC_Marts ------------------------------
(* A user whose session goes over midnight, an invalid event, and the five *)
(* marts in the order of the code, taken apart.                            *)
EXTENDS Marts, TLC

Event(day, page, referrer, valid) ==
  [day |-> day, user_id |-> "u", session_id |-> "s", page_path |-> page,
   referrer |-> referrer, valid |-> valid]

Morning == [Event(0, "/", "", TRUE) EXCEPT !.session_id = "s0"]
Evening == Event(0, "/", "", TRUE)
Night == Event(1, "/cart", "ad", TRUE)
Broken == Event(0, "/", "", FALSE)

MCAttributes == {Morning, Evening, Night, Broken}

MCEarly == {Morning, Broken}

MCMartOrders == { <<"kpi_daily", "session_quality_daily">>,
                  <<"pages_daily", "user_cohorts_daily">>,
                  <<"referrer_daily">> }

Symmetry == Permutations(Slots)
=============================================================================

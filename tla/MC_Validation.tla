--------------------------- MODULE MC_Validation ---------------------------
(* Inputs of the runs of Validation. *)
EXTENDS Validation

\* Every combination of the fields; click and PAGE_VIEW stand for the types.
SomeTypes == {"", "click", "PAGE_VIEW", "scroll"}

AllEvents == { e \in Event : e.event_type \in SomeTypes /\ e.type \in SomeTypes }

Good == [user_id |-> "number", session_id |-> "text", event_type |-> "PAGE_VIEW", type |-> "",
         page_url |-> "", url |-> "text", device_id |-> "none", device_type |-> "text",
         created_at |-> "time", payload |-> "json", extra |-> "props_json", context |-> TRUE]

\* Events that differ in what the handler makes of them.
Samples == {Good,
            [Good EXCEPT !.user_id = ""],
            [Good EXCEPT !.created_at = "garbage"],
            [Good EXCEPT !.event_type = "scroll"],
            [Good EXCEPT !.extra = "props"]}

\* Each event alone, the samples in batches of up to three, and a long batch.
MCBatches == { <<e>> : e \in AllEvents }
             \cup UNION { [1 .. n -> Samples] : n \in 2 .. 3 }
             \cup { [i \in 1 .. 7 |-> [Good EXCEPT !.extra = "props"]] }

MCMessages == AllEvents

\* A csv object has neither a column type nor page_url nor device_id nor other keys.
MCCsvRows == { e \in AllEvents : /\ e.type = "" /\ e.page_url = "" /\ e.extra = ""
                                 /\ e.device_id = "none" }

MCProduced == << [type |-> "view"], [type |-> "purchase"], [type |-> "logout"] >>
=============================================================================

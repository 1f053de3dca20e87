----------------------------- MODULE MCTraceFiles -----------------------------
(* Instances of TraceFiles for TLC: small published files of every kind. *)
EXTENDS TraceFiles

CONSTANTS p1, p2

BothProcs == {p1, p2}
Interchangeable == Permutations(BothProcs)

Columns == {"id", "status", "start", "end", "duration", "submit", "queue", "size",
            "group", "tokens"}

Row(id, status, start, end) ==
    [id |-> id, status |-> status, start |-> start, end |-> end,
     duration |-> IF end = NaN THEN NaN ELSE end - start, submit |-> start, queue |-> NaN,
     size |-> IF end = NaN THEN NaN ELSE 2 * id, group |-> IF start = 0 THEN "a" ELSE "nan",
     tokens |-> 150 * id]

Good == Row(0, "completed", 4, 6)
Bad  == {Row(1, "failed", 0, 3), Row(1, "completed", 3, 3), Row(1, "completed", 0, NaN),
         Row(1, "completed", 2, 7)}
Tables == {<<b, Good, Row(2, "completed", 5, 9)>> : b \in Bad}

Philly == {[cols |-> c, rows |-> rows] : rows \in Tables,
           c \in {Columns, Columns \ {"id", "status"}, Columns \ {"end"},
                  Columns \ {"group", "size"}}}

Helios == {[cols |-> c, files |-> <<[readable |-> r, rows |-> rows],
                                    [readable |-> s, rows |-> <<Row(7, "completed", 0, 1)>>]>>] :
           rows \in Tables, r \in BOOLEAN, s \in BOOLEAN,
           c \in {Columns, Columns \ {"duration", "submit"},
                  Columns \ {"duration", "end", "group"}}}

Burst == {[cols |-> c, rows |-> <<Good, Row(1, "completed", 2, 7), Row(2, "failed", 3, 3),
                                  Row(3, "failed", 9, 11)>>] :
          c \in {Columns, Columns \ {"duration", "tokens"}, {"submit"}, {}}}

Function(id, average, c1, c2) ==
    [id |-> id, average |-> average, median |-> 2, calls |-> <<c1, c2>>]

Azure == {[minutes |-> 2, functions |-> <<Function("f", 2, 2, 1), Function("g", a, c, 1)>>] :
          a \in {NaN, 4, 90}, c \in 0..3} \cup {[minutes |-> 2, functions |-> <<>>]}

Line(task, event, time) == [task |-> task, event |-> event, time |-> time, class |-> task % 4,
                            cpu |-> task]

\* Tasks 5, 6 and 7 come and go; task 5 is submitted again at some time, and
\* ends again or not.
Borg == {[[<<Line(5, "submit", 0), Line(6, "submit", 1), Line(5, "finish", 2),
             Line(7, "submit", 3), Line(6, "finish", 4), Line(9, "submit", 5),
             Line(7, "finish", 6), Line(9, "finish", 7), Line(8, e, 8)>>
           EXCEPT ![i] = Line(5, f, i - 1)] EXCEPT ![j] = Line(5, "evict", j - 1)] :
         e \in {"submit", "finish"}, f \in {"submit", "finish"}, i \in 4..9, j \in 5..9}
        \cup {<<Line(5, "submit", 0)>>}

Normal == <<[id |-> 0, duration |-> 3, at |-> 0, group |-> "a", size |-> 2, tokens |-> 90,
             queue |-> 0, type |-> "a", class |-> 1],
            [id |-> 1, duration |-> 5, at |-> 1, group |-> "b", size |-> 1, tokens |-> 900,
             queue |-> 0, type |-> "a", class |-> 5]>>

Published(l, files) == {[loader |-> l, published |-> f, fixture |-> Normal] : f \in files}

SmallTraces ==
    Published("philly", Philly) \cup Published("helios", Helios) \cup Published("burstgpt", Burst)
    \cup Published("azure", Azure) \cup Published("borg", Borg)
    \cup {[loader |-> l, published |-> <<>>, fixture |-> f] :
            l \in {"mooncake", "synthetic"}, f \in {<<>>, Normal}}

\* One trace of every loader that downloads: the one that has most to tell.
ContendedTraces ==
    {t \in SmallTraces :
       \/ t \in Published("philly", {[cols |-> Columns, rows |-> rows] : rows \in Tables})
            /\ t.published.rows[1] = Row(1, "completed", 2, 7)
       \/ t.loader = "azure" /\ Len(t.published.functions) = 2
            /\ t.published.functions[2] = Function("g", 4, 2, 1)}
=============================================================================

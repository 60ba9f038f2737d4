----------------------------- MODULE MCRequests -----------------------------
(***************************************************************************)
(* Small stores, profiles, requests and frames for ServerRequests.         *)
(***************************************************************************)
EXTENDS ServerRequests, FiniteSetsExt

Spaces == <<" ">>
SourceNames == [ATest |-> "A"]
TestLike == {"ATest", "BSpec"}
Matching == {<<"TestRun", "run">>, <<"run", "run">>}

Method(id, name, span, tags, targets) ==
    [id |-> id, name |-> name, span |-> span, tags |-> tags, targets |-> targets, words |-> {name}]
Class(id, name, span, tags, targets, methods) ==
    [id |-> id, name |-> <<"p", name>>, span |-> span, tags |-> tags, targets |-> targets, words |-> {name}, methods |-> methods]
File(path, dir, imports, unreadable, classes) ==
    [path |-> path, dir |-> dir, test |-> FALSE, imports |-> imports, keys |-> {<<"/", dir, path>>, <<dir, path>>},
     lines |-> 3, unreadable |-> unreadable, classes |-> classes]

\* Production class A, a class B of which a method has the same name, and tests.
Source(tags, mtags, span) == File("a", "d", {}, FALSE, <<Class(1, "A", <<1, 3>>, tags, <<>>, <<Method(2, "run", span, mtags, <<>>), Method(3, "stop", <<3, 3>>, {}, <<>>)>>)>>)
Other(bad) == File("b", "e", {}, bad, <<Class(4, "B", <<1, 2>>, {"y"}, <<>>, <<Method(5, "run", <<1, 1>>, {"x"}, <<>>)>>)>>)
Tests(dir, imports, tags, targets) ==
    File("t", dir, imports, FALSE,
         <<Class(6, "ATest", <<1, 3>>, tags, <<>>, <<Method(7, "TestRun", <<1, 1>>, {}, <<>>), Method(8, "TestAll", <<2, 2>>, {"x"}, targets)>>),
           Class(9, "BSpec", <<3, 3>>, tags, <<>>, <<Method(10, "spec", <<3, 3>>, {}, <<>>)>>)>>)

Spans == {<<1, 2>>, <<2, 4>>, <<5, 6>>}
TagSets == {{}, {"x"}, {"x", "y"}}

Stores ==
    UNION {{<<a, b, t>>, <<t, b, a>>} :
        a \in {Source(g, h, s) : g \in TagSets, h \in {{}, {"x", "y"}}, s \in {<<1, 2>>, <<2, 4>>}},
        b \in {Other(FALSE), Other(TRUE)},
        t \in {Tests("d", {}, {"x"}, <<>>), Tests("f", {"d"}, {"y"}, <<>>), Tests("f", {}, {}, <<<<"A">>>>)}}
Known == <<Source({"x"}, {"x", "y"}, <<1, 2>>), Other(FALSE), Tests("d", {}, {"x"}, <<>>)>>
FewStores == {Known,
              <<Tests("f", {}, {}, <<<<"A">>>>), Other(TRUE), Source({}, {}, <<2, 4>>)>>}

Run == <<"p", "A", "run">>
RequestNames == {Run, <<"p", "A">>, <<"p", "B", "run">>, <<"p", "ATest", "TestRun">>, <<"q">>}
Coverages == {NoCoverage, [tests |-> {<<"p", "ATest", "TestAll">>, Run}, of |-> [t \in {<<"p", "ATest", "TestAll">>, Run} |-> {Run}]]}

Blocks == [file : {<<"d", "a">>, <<"mod", "d", "a">>, <<"e", "b">>}, from : {1, 3}, to : {0, 3, 4}, count : {-1, 0, 1}]
Profiles == {<<>>} \cup {<<b>> : b \in Blocks}
              \cup {<<b, c>> : b, c \in {d \in Blocks : d.file # <<"d", "a">> /\ d.to = 3 /\ d.count >= 0}}

FoundDocs == {[kind |-> "class", id |-> 1, path |-> ""], [kind |-> "method", id |-> 2, path |-> ""], [kind |-> "method", id |-> 3, path |-> ""],
         [kind |-> "method", id |-> 5, path |-> ""], [kind |-> "method", id |-> 99, path |-> ""], [kind |-> "file", id |-> 0, path |-> "a"]}
DocLists == {<<a, b, c>> : a, b, c \in FoundDocs}

Worlds ==
    [t \in Tenants |->
        [st |-> IF t = Default THEN <<Source({"x"}, {"y"}, <<1, 2>>), Tests("d", {}, {"x"}, <<>>)>> ELSE <<Other(FALSE)>>,
         cov |-> NoCoverage, cache |-> <<>>, disk |-> [p \in {"a", "b", "t"} |-> IF p = "b" THEN Gone ELSE 2],
         categories |-> [g \in {"x", "y"} |-> "c"]]]

Defaults == [mode |-> "full", lines |-> 1]
Written(kind, value) == [kind : {kind}, value : {value}, quoted : BOOLEAN]
Modes == {Unset} \cup Written("word", "minimal")
Numerals == {Unset, [kind |-> "prefix", value |-> 80, quoted |-> TRUE]} \cup Written("whole", 80) \cup Written("fraction", 80) \cup Written("word", "many")
Recursions == {Unset} \cup Written("word", "true") \cup Written("whole", 1)
Asks == [ask : HttpAsks \cup {"config", "depends", "call_graph", "none"}, verb : {"GET"}, header : {Unset}, tenant : {Unset, "u"},
         names : {<<>>, <<Run>>, <<Blank, <<"q">>, <<"p", "B", "run">>>>}, name : {<<>>, Blank, Run, <<"p", "B", "run">>},
         tags : {{}, {"x"}}, pattern : {"run"}, dots : {FALSE}, mode : {Unset}, number : {Unset, [kind |-> "whole", value |-> 80, quoted |-> FALSE]},
         recursive : {Unset}]
Plain == {q \in Asks : q.names = <<>> /\ q.tags = {"x"} /\ q.number = Unset}
Spelled == {[q EXCEPT !.mode = m, !.number = n, !.recursive = f] : q \in {r \in Plain : r.tenant = Unset}, m \in Modes, n \in Numerals, f \in Recursions}
Routed == {[q EXCEPT !.verb = v, !.header = h, !.tenant = t, !.dots = d] :
             q \in Plain,
             v \in {"GET", "POST", "OPTIONS"}, h \in {Unset, "t", "v"}, t \in {Unset, "u", "v"}, d \in BOOLEAN}

Bodies == {Junk, [method |-> "tools/list", params |-> Unset], [method |-> "tools/call", params |-> Unset], [method |-> "none", params |-> Unset]}
            \cup {[method |-> "tools/call", params |-> q] : q \in {r \in Asks : r.ask = "tags" /\ r.names = <<>> /\ r.number = Unset /\ r.tags = {} /\ r.name \in {<<>>, Run}}}
Frames == UNION {[1 .. n -> [length : BOOLEAN, body : Bodies]] : n \in 0 .. 3}

RequestInputs ==
    [links   |-> [st : Stores, cov : Coverages, name : RequestNames],
     profile |-> [st : FewStores, p : Profiles, q : Profiles],
     context |-> [st : {<<Source({}, {}, s), Other(FALSE)>> : s \in Spans}, name : {Run, <<"p", "A">>, <<"q">>, <<>>},
                  cache : {<<>>, (Run :> [kind |-> "method", path |-> "b", span |-> <<4, 5>>])},
                  disk : {("a" :> n) @@ ("b" :> k) : n \in 0 .. 4 \cup {Gone}, k \in 0 .. 4}, mode : {"full", "minimal"}, around : 0 .. 2],
     tags    |-> [st : Stores, tags : SUBSET {"x", "y", ""}],
     search  |-> UNION {[st : {Known}, docs : {docs}, best : Verdicts(Known, docs)] : docs \in DocLists},
     request |-> [worlds : {Worlds}, q : Asks \cup Spelled \cup Routed, defaults : {Defaults}],
     frames  |-> [worlds : {Worlds}, frames : Frames, defaults : {Defaults}]]
=============================================================================

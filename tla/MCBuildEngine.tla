----------------------------- MODULE MCBuildEngine -----------------------------
(* Five files: the code, its tests, a document that does not exist yet, an      *)
(* artifact under dist/, and a JSON object.                                    *)
EXTENDS BuildEngine

CONSTANTS code, tests, doc, artifact, settings, elsewhere

Op(type, path, source, match, content) ==
    [type |-> type, path |-> path, source |-> source, match |-> match, content |-> content]
On(type, path, match, content) == Op(type, path, path, match, content)

\* Two operations edit the code, and re-running the first would edit it once more.
Fix == <<On("replace_text", code, <<"a">>, <<"b">>),
         On("insert_after_text", code, <<"b">>, <<"c">>),
         Op("copy_file", doc, tests, <<>>, <<>>)>>
\* Everything is moved about, and the tests go.
Tidy == <<On("delete_text", code, <<"a">>, <<>>),
          On("insert_before_text", code, <<"a">>, <<"d">>),
          Op("move_file", doc, code, <<>>, <<>>),
          On("append_text", doc, <<>>, <<"b">>),
          On("json_set", settings, <<>>, <<"{v}">>),
          On("delete_file", tests, <<>>, <<>>)>>
Anew == <<On("write_file", doc, <<>>, <<"b">>)>>
Astray == <<On("write_file", elsewhere, <<>>, <<"b">>)>>

\* A criterion: who evaluates it, what its text is about, and the keys of its metadata
Criterion(evaluator, topic, keys) ==
    [evaluator |-> evaluator, topic |-> topic, keys |-> keys, nuance |-> "none",
     paths |-> {doc}, text |-> <<"t">>, limit |-> 1, check |-> "test",
     types |-> {"copy_file"}, required |-> TRUE]

Request(operations, written, gate, criteria) ==
    [plan |-> operations, written |-> written, gate |-> gate, criteria |-> criteria,
     targets |-> {doc}]

MCRequests ==
    {Request(Fix, FALSE, "blocking",
             <<Criterion("auto", "change_set", {}), Criterion("auto", "test", {})>>),
     Request(Fix, FALSE, "none",
             <<Criterion("workspace", "nothing", {"contains_text"}),
               [Criterion("auto", "nothing", {}) EXCEPT !.required = FALSE]>>),
     Request(Tidy, FALSE, "none",
             <<Criterion("auto", "nothing", {"minimum_changed_operations"})>>),
     Request(Tidy, FALSE, "advisory",
             <<[Criterion("auto", "review", {}) EXCEPT !.nuance = "no high"],
               Criterion("auto", "verify_command", {})>>),
     Request(Anew, TRUE, "none", <<>>),
     Request(Anew, TRUE, "none",
             <<Criterion("implementation", "nothing", {"minimum_changed_operations"})>>),
     Request(Tidy, FALSE, "none", <<[Criterion("auto", "test", {}) EXCEPT !.required = FALSE]>>),
     Request(Astray, FALSE, "none", <<>>)}

MCReports == {[verdict |-> "pass", critical |-> 0, high |-> 0, total |-> 0],
              [verdict |-> "pass", critical |-> 0, high |-> 1, total |-> 1],
              [verdict |-> "fail", critical |-> 1, high |-> 0, total |-> 1]}

MCOriginal == [f \in Files |-> CASE f = code     -> <<"a", "a">>
                                 [] f = tests    -> <<"t">>
                                 [] f = artifact -> <<"z">>
                                 [] f = settings -> <<"{}">>
                                 [] OTHER        -> NoFile]

\* The owner replaces the code under the plan's feet, or writes the document himself.
MCUpstream == {[MCOriginal EXCEPT ![code] = <<"c">>], [MCOriginal EXCEPT ![doc] = <<"d">>]}

MCObjects  == {<<"{}">>, <<"{v}">>}
MCDefaults == <<"test", "lint">>
MCSurfaces == [c \in Checks |-> CASE c = "test" -> {tests} [] c = "lint" -> {settings}
                                  [] OTHER -> {}]
MCRunners  == [c \in Checks |-> IF c = "lint" THEN {"toolchain"} ELSE {}]
===============================================================================

----------------------------- MODULE MCSettings -----------------------------
(* Small instances of Settings for TLC. *)
EXTENDS Settings, TLC

Symmetry == Permutations(Reqs)

(* url: overridden by the environment; buckets: may be emptied; dest: selects *)
(* the destination, and its value "b" cannot be built; keep: a number, and    *)
(* "b" is none.                                                               *)
FourKeys == {"url", "buckets", "dest", "keep"}
KeepParsed == "keep" :> ("a" :> "a" @@ "b" :> Zero)
InFile == "url" :> "" @@ "buckets" :> "" @@ "dest" :> "a" @@ "keep" :> "a"
UrlInEnv == "url" :> "a"
AnyBody ==
  UNION {[K -> {"a", "b", ""}] : K \in {{"url"}, {"keep"}, {"buckets", "dest"}}}
=============================================================================

----------------------------- MODULE LossyCache -----------------------------
(***************************************************************************)
(* What a caller of OntopEngine::translate_with_cache may rely on, with    *)
(* sizes, ages, statistics and locks left out: the cache is a map from     *)
(* query texts to SQL that may forget anything at any moment, remembers    *)
(* only what was translated for that very text, and serves only what it    *)
(* remembers.                                                              *)
(***************************************************************************)
CONSTANTS Texts,      \* SPARQL query texts
          Sql,        \* Sql[t]: the SQL that translating t yields
          Nothing     \* "no entry", "no answer"

VARIABLES store,      \* store[t]: the SQL remembered for t, or Nothing
          reply       \* <<t, sql>> when the last step served t from the cache

vars == <<store, reply>>

Init == /\ store = [t \in Texts |-> Nothing]
        /\ reply = Nothing

Stores == [Texts -> {Nothing} \cup {Sql[t] : t \in Texts}]
\* Nothing else is put under the texts of kept.
KeepsOrForgets(kept) == LET new == store'
                        IN  /\ new \in Stores
                            /\ \A t \in kept : new[t] \in {store[t], Nothing}

Forget == /\ reply' = Nothing
          /\ KeepsOrForgets(Texts)

Remember(t) == /\ reply' = Nothing
               /\ store'[t] = Sql[t]
               /\ KeepsOrForgets(Texts \ {t})

Serve(t) == /\ store[t] # Nothing
            /\ reply' = <<t, store[t]>>
            /\ store'[t] = store[t]
            /\ KeepsOrForgets(Texts)

Next == Forget \/ \E t \in Texts : Remember(t) \/ Serve(t)

Spec == Init /\ [][Next]_vars

\* What the map promises in one line: an answer is the SQL of its own text.
ServesOwn == reply # Nothing => reply[2] = Sql[reply[1]]
=============================================================================

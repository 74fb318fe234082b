-------------------------- MODULE MCGuidedAuthoring --------------------------
EXTENDS GuidedAuthoring, TLC

Cand(loc, amb) == [loc |-> loc, amb |-> amb]
Out(key, source, loc, amb) == [key |-> key, source |-> source, loc |-> loc, amb |-> amb]
Rec(origin, kind, time, cands, outputs) ==
    [origin |-> origin, kind |-> kind, at |-> time, hint |-> "", cands |-> cands, outputs |-> outputs]
Snapshot == "accessibility_snapshot"

\* A locator that one record calls ambiguous and the other does not, an output
\* with a locator of its own, a hint with the key of an output of the other record.
Shared == "E1" :> Rec("o1", Snapshot, 1, {Cand("save", FALSE)}, {Out("k", "unbound", NoLocator, FALSE)})
       @@ "E2" :> Rec("o1", Snapshot, 2, {Cand("save", TRUE)}, {Out("k", "a11y", "total", TRUE)})
\* Records of two origins, kinds and times, one of them in the future.
Apart == "E1" :> Rec("o1", Snapshot, 0, {Cand("save", TRUE), Cand("save", FALSE)}, {})
      @@ "E2" :> Rec("o2", "dom_text", 3, {}, {Out("k", "css", NoLocator, FALSE)})
\* One record, whose output names a locator the record lists.
Alone == "E1" :> Rec("o1", Snapshot, 1, {Cand("save", FALSE), Cand("menu", FALSE)},
                     {Out("k", "a11y", "save", TRUE), Out("j", "jsonld", NoLocator, FALSE)})

MCCatalogs == {Shared, Apart, Alone}
MCTargets == {[absolute |-> TRUE, origin |-> "o1"], [absolute |-> FALSE, origin |-> Here],
              [absolute |-> FALSE, origin |-> "elsewhere"]}
=============================================================================

---------------------------- MODULE MCBlockInput ----------------------------
(* Commands small enough to enumerate: every form of a block or timestamp  *)
(* expression, alone and with the options that change what is cut.         *)
EXTENDS BlockInput

Tok(kind, first, second) == [kind |-> kind, first |-> first, second |-> second, step |-> 2, keep |-> 2]

Refs == {<<"latest">>, <<"empty">>, <<"num", 1>>, <<"num", 4>>, <<"minus", 2>>, <<"plus", 2>>, <<"bad">>}
TimeRefs == {<<"latest">>, <<"empty">>, <<"num", 15>>, <<"num", 30>>, <<"minus", 10>>, <<"plus", 15>>}

Plain == [unit |-> "block", expressions |-> <<>>, files |-> <<>>, align |-> FALSE, chunk_size |-> 2,
          n_chunks |-> 0, reorg_buffer |-> 0, other |-> <<>>, labels |-> <<>>, partition_by |-> <<>>,
          reverse |-> FALSE]

Expressions ==
  {<<<<Tok(k, a, b)>>>> : k \in {"range", "step", "keep"}, a \in Refs, b \in Refs}
    \cup {<<<<Tok("one", a, a)>>>> : a \in Refs}
    \cup {<<<<Tok("range", <<"num", 0>>, <<"num", 4>>), Tok("one", <<"latest">>, <<"latest">>)>>,
           <<Tok("range", <<"num", 1>>, <<"latest">>)>>>>}

Cuts ==
  {[Plain EXCEPT !.expressions = <<<<Tok("range", a, <<"latest">>)>>>>, !.align = al, !.chunk_size = k,
                 !.n_chunks = n, !.reorg_buffer = r] :
     a \in {<<"num", 0>>, <<"num", 1>>}, al \in BOOLEAN, k \in {1, 2, 3}, n \in {0, 2}, r \in {0, 2}}

Other == [address |-> <<Values(<<1, 2>>), Values(<<2>>)>>, topic0 |-> <<Values(<<7>>)>>]
Labelled ==
  {[Plain EXCEPT !.expressions = e, !.files = f, !.other = Other, !.partition_by = by, !.reverse = rev,
                 !.labels = [address |-> <<Label("a"), NoLabel>>, topic0 |-> <<NoLabel>>]] :
     e \in {<<>>, <<<<Tok("range", <<"num", 0>>, <<"num", 4>>)>>>>},
     f \in {<<>>, <<[name |-> "f", items |-> <<3, 5>>]>>, <<[name |-> "f", items |-> <<3>>], [name |-> "g", items |-> <<4>>]>>},
     by \in {<<>>, <<"block">>, <<"block", "address">>, <<"slot">>}, rev \in BOOLEAN}

Times ==
  {[Plain EXCEPT !.unit = "timestamp", !.expressions = <<<<Tok(k, a, b)>>>>] :
     k \in {"one", "range", "step", "keep"}, a \in TimeRefs, b \in TimeRefs}

MCCommands == {[Plain EXCEPT !.expressions = e] : e \in Expressions} \cup Cuts \cup Labelled \cup Times
MCTimeOf == [b \in 0 .. MaxHead |-> 10 * b]
=============================================================================

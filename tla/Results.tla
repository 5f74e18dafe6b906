------------------------------ MODULE Results ------------------------------
(* Result<T, E> and Option<T>: what a call returns, and a value that may be *)
(* missing, a set of at most one element.                                   *)

Ok(v) == [ok |-> TRUE, val |-> v]
Err == [ok |-> FALSE]

None == {}
Some(v) == {v}

\* Result::ok, as an option.
AsOption(r) == IF r.ok THEN Some(r.val) ELSE None
Then(r, f(_)) == IF r.ok THEN Ok(f(r.val)) ELSE Err
Unwrap(option) == CHOOSE v \in option : TRUE
=============================================================================

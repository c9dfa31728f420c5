------------------------------- MODULE Optional -------------------------------
(***************************************************************************)
(* Rust's Option, as sets: None is {} and Some(x) is {x}.                  *)
(***************************************************************************)
None == {}
Some(x) == {x}
Option(S) == {None} \cup {Some(x) : x \in S}
Unwrap(option) == CHOOSE x \in option : TRUE
UnwrapOr(option, default) == IF option = None THEN default ELSE Unwrap(option)
Or(option, other) == IF option = None THEN other ELSE option
=============================================================================

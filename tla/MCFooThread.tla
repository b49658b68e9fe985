----------------------------- MODULE MCFooThread -----------------------------
(***************************************************************************)
(* Model values for FooThread.                                             *)
(***************************************************************************)
EXTENDS FooThread

AllOf(status) == [t \in Followers |-> status]

\* computesum's use, every thread joinable, and its opposite.
Uniform == {AllOf("joinable"), AllOf("detached")}

SlowAndFast == {TRUE, FALSE}
=============================================================================

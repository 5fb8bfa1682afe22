---------------------------- MODULE MCTypeTable ----------------------------
(***************************************************************************)
(* Three generated modules over a base class, a derived class and a        *)
(* typedef of the base class.  The first module uses the derived class and *)
(* the typedef without knowing that they are related, the second knows the *)
(* class hierarchy, the third knows everything.                            *)
(***************************************************************************)
EXTENDS TypeTable, TLC

CONSTANTS m1, m2, m3, Base, Deriv, Alias

NoRow == [n \in Names |-> <<>>]

MCTypeInitial ==
  (m1 :> <<Alias, Deriv>>) @@ (m2 :> <<Base, Deriv>>) @@ (m3 :> <<Alias, Base, Deriv>>)

MCCastInitial ==
  (m1 :> [NoRow EXCEPT ![Alias] = <<Alias>>, ![Deriv] = <<Deriv>>]) @@
  (m2 :> [NoRow EXCEPT ![Base] = <<Base, Deriv>>, ![Deriv] = <<Deriv>>]) @@
  (m3 :> [NoRow EXCEPT ![Alias] = <<Alias, Base, Deriv>>,
                       ![Base] = <<Deriv, Alias, Base>>,
                       ![Deriv] = <<Deriv>>])

MCConverters == {<<Deriv, Base>>, <<Deriv, Alias>>}

MCStaticData == (m1 :> {}) @@ (m2 :> {Deriv}) @@ (m3 :> {Alias})

\* Every module uses the base class only.
BaseOnly == [x \in Modules |-> <<Base>>]
BaseCast == [x \in Modules |-> [n \in Names |-> <<Base>>]]
NoData   == [x \in Modules |-> {}]
=============================================================================

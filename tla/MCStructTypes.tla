--------------------------- MODULE MCStructTypes ---------------------------
(* Small instances of StructTypes for TLC. *)
EXTENDS StructTypes

CONSTANTS s1, s2, s3, a, b

A == CompleteStruct(a, <<Integer(24)>>, TRUE)
Anonymous == CompleteStruct(NoName, <<Scalar>>, FALSE)
Scalable == Vector(Scalar, 2, TRUE)

(* Every kind of type; names used once, in agreement and in disagreement,  *)
(* and not at all.                                                         *)
PureTypes ==
  {Scalar, Integer(24), Scalable, Array(Scalable, 3), Vector(Scalar, 2, FALSE),
   OpaqueStruct(a), Pointer(OpaqueStruct(a), 0), A, Anonymous,
   CompleteStruct(b, <<Pointer(OpaqueStruct(a), 0), OpaqueStruct(a)>>, FALSE),
   CompleteStruct(b, <<A, OpaqueStruct(a)>>, FALSE),
   CompleteStruct(a, <<A>>, FALSE),
   Literal(<<Anonymous, A>>, TRUE),
   Function(Array(Scalable, 3), <<Pointer(OpaqueStruct(a), 0), Vector(Scalar, 2, FALSE)>>, TRUE)}

Bodies ==
  {BodyOf(<<Pointer(Ident(s1), 0)>>, TRUE), BodyOf(<<Ident(s2)>>, FALSE)}
=============================================================================

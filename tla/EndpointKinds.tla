--------------------------- MODULE EndpointKinds ---------------------------
(***************************************************************************)
(* A service function of the Go client, seen from its caller, is four      *)
(* things: the checks it makes on its parameter before anything is sent,   *)
(* the client helper it sends through (`via`), its path, and what its      *)
(* result type makes of the body of the reply.  V5Endpoints and            *)
(* LegacyEndpoints give one such record per function; RestClient runs      *)
(* them.                                                                   *)
(*                                                                         *)
(* A parameter is the category it names, the set of facts that hold of it  *)
(* (mostly: which optional fields are not nil) and the decimal exponent of *)
(* its largest number.                                                     *)
(***************************************************************************)
EXTENDS Integers

Derivatives == {"linear", "inverse"}
Categories == Derivatives \cup {"spot", "option"}

\* What a caller may pass: a category, the empty string, or another text.
CategoryArguments == Categories \cup {"", "other"}

\* A function with no category parameter and no check.
Function(via, path) ==
    [via |-> via, path |-> path,
     handle |-> "base",          \* the Client its service holds
     asks |-> {"none"},          \* the categories a caller may pass
     accepts |-> {"none"},       \* those the function lets through
     needs |-> {},               \* clauses: one fact of each must hold
     only |-> {},                \* facts that some categories exclude
     decoder |-> "struct",       \* how it decodes the result
     decodes |-> Categories,     \* the categories whose result its type fits
     numbers |-> FALSE,          \* its JSON body has numbers of the caller's
     ids |-> {}]                 \* the names of the one order it changes

Public(path) == Function("getPublicly", path)
Get(path) == Function("getPrivately", path)
GetV5(path) == Function("getV5Privately", path)
PostV5(path) == Function("postV5JSON", path)
Post(path) == Function("postJSON", path)
PostForm(path) == Function("postForm", path)
Delete(path) == Function("deletePrivately", path)

Numeric(f) == [f EXCEPT !.numbers = TRUE]

\* ... with a category parameter, of which it checks nothing.
ByCategory(f) == [f EXCEPT !.asks = CategoryArguments, !.accepts = CategoryArguments]

\* ... which must be one of `cats`.
InCategories(f, cats) == [f EXCEPT !.asks = CategoryArguments, !.accepts = cats]

\* The functions of services that hold a copy of the Client.
Through(handle, functions) == {[f EXCEPT !.handle = handle] : f \in functions}

AnyOf(facts) == [cats |-> CategoryArguments \cup {"none"}, facts |-> facts]
AnyOfIn(cats, facts) == [cats |-> cats, facts |-> facts]
AllOf(facts) == {AnyOf({f}) : f \in facts}
OnlyIn(cats, fact) == [cats |-> cats, fact |-> fact]

\* A function that changes or cancels one order, which the caller names by one
\* of `ids`; the second kind refuses a parameter that names none.
OneOrder(f, ids) == [f EXCEPT !.ids = ids]
NamedOrder(f, ids) == [f EXCEPT !.ids = ids, !.needs = @ \cup {AnyOf(ids)}]

Facts(f) == UNION {n.facts : n \in f.needs} \cup {o.fact : o \in f.only} \cup f.ids

Params(f, exponents) ==
    [category : f.asks, given : SUBSET Facts(f),
     exp : IF f.numbers THEN exponents ELSE {0}]

\* The checks of f let the parameter p through.
Accepts(f, p) ==
    /\ p.category \in f.accepts
    /\ \A n \in f.needs : p.category \in n.cats => n.facts \cap p.given # {}
    /\ \A o \in f.only : o.fact \in p.given => p.category \in o.cats

(***************************************************************************)
(* Results.  encoding/json refuses a value that its Go type does not take  *)
(* (a text for an int, a time.Time in another format) and leaves the zero  *)
(* value where it finds null or nothing.  Some result types decode their   *)
(* rows, JSON arrays, by hand.  Asserted rows are checked for their length *)
(* and taken apart by type assertions, which panic; typed rows are         *)
(* unmarshalled to strings, null to "", and checked for their length;      *)
(* unchecked rows are unmarshalled to strings and indexed.  Other results  *)
(* choose a type by the category that they name.                           *)
(*                                                                         *)
(* A result is "whole" when it is what the type expects, "mistyped" when a *)
(* value outside the rows does not fit or a row is no array, and "null"    *)
(* when a value outside the rows is null or missing.  It may name no       *)
(* category or an "other_category".  One of its rows may be "short" or     *)
(* "long" (null is a row without elements), and an element of a row may be *)
(* of another JSON type or null.                                           *)
(***************************************************************************)
Decoders == {"struct", "category", "asserted", "typed", "unchecked"}

ResultShapes == {"whole", "mistyped", "null"}
RowShapes == {"short", "long", "element_mistyped", "element_null"}

AssertedRows(f) == [f EXCEPT !.decoder = "asserted"]
TypedRows(f) == [f EXCEPT !.decoder = "typed"]
UncheckedRows(f) == [f EXCEPT !.decoder = "unchecked"]
TypedByCategory(f) == [f EXCEPT !.decoder = "category"]

DecodeStruct(shape) == IF shape = "mistyped" THEN "error" ELSE "ok"

DecodeByCategory(shape) ==
    IF shape = "other_category" THEN "error" ELSE DecodeStruct(shape)

DecodeAsserted(shape) ==
    CASE shape \in {"whole", "null"} -> "ok"
      [] shape \in {"mistyped", "short", "long"} -> "error"
      [] shape \in {"element_mistyped", "element_null"} -> "panic"

\* Rows that are too short pass.
DecodeTypedBug(shape) ==
    IF shape \in {"whole", "null", "element_null", "short"} THEN "ok" ELSE "error"

DecodeTyped(shape) == IF shape \in {"whole", "null", "element_null"} THEN "ok" ELSE "error"

DecodeUnchecked(shape) ==
    CASE shape \in {"whole", "null", "long", "element_null"} -> "ok"
      [] shape = "short" -> "panic"
      [] shape \in {"mistyped", "element_mistyped"} -> "error"

DecodeResult(f, shape) ==
    CASE f.decoder = "struct" -> DecodeStruct(shape)
      [] f.decoder = "category" -> DecodeByCategory(shape)
      [] f.decoder = "asserted" -> DecodeAsserted(shape)
      [] f.decoder = "typed" -> DecodeTyped(shape)
      [] f.decoder = "unchecked" -> DecodeUnchecked(shape)

\* What the server may make of f's result.
Shapes(f) ==
    CASE f.decoder = "struct" -> ResultShapes
      [] f.decoder = "category" -> ResultShapes \cup {"other_category"}
      [] f.decoder \in {"asserted", "typed", "unchecked"} -> ResultShapes \cup RowShapes
=============================================================================

---------------------------- MODULE MCFrameReuse ----------------------------
(* A panel that reads the entity of the panel beside it.                   *)
EXTENDS FrameReuse

Panel(v) == [view |-> v, cached |-> TRUE, deferred |-> FALSE, place |-> 0]
Shape(kids, reads) == [kids |-> kids, reads |-> reads]

\* The root holds the cached panels "a" and "b", and "a" reads "b" or does not.
ReadingSibling == [v \in Views |->
    CASE v = "root" -> {Shape(<<Panel("a"), Panel("b")>>, {})}
      [] v = "a" -> {Shape(<<>>, {}), Shape(<<>>, {"b"})}
      [] OTHER -> {Shape(<<>>, {})}]
=============================================================================

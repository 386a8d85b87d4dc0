----------------------------- MODULE MCSubscriber -----------------------------
(***************************************************************************)
(* Subscriber for TLC: the handlers that answer Continue, and the          *)
(* channels, are interchangeable.                                          *)
(***************************************************************************)
EXTENDS Subscriber, TLC

Symmetry ==
    Permutations(Channels) \cup Permutations(Handlers \ Stoppers)

=============================================================================

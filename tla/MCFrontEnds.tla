---- MODULE MCFrontEnds ----
EXTENDS FrontEnds
====

---- MODULE MCFramePosters ----
EXTENDS FramePosters
====

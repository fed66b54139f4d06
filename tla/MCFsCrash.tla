----------------------------- MODULE MCFsCrash -----------------------------
EXTENDS FsCrash
====

-------------------------- MODULE MCUpdateService --------------------------
EXTENDS UpdateService

CONSTANTS dll

\* Every version marks every item as changed.
MCChanged(v) == Items

Reading(n) == pc[n] \in {"decide", "truncate", "write"}

\* The copies an update may still read.
Needed(n) == (IF pc[n] \in ReplacePcs THEN {item[n]} ELSE {}) \cup (IF asm[n] = n THEN {Dll} ELSE {})

\* States that differ only in what no step and no property reads any more count
\* as one: a host that is not open and that nobody refers to, the locals of a
\* Callback that is done with them, copies that are used up, the assembly of a
\* finished one that has no open host, which of the causes there was, and why
\* no host listens after a race.  TypeOK, which holds, makes TLC evaluate the
\* variables the view leaves out.
View ==
  LET kept == {listener[a] : a \in Actors}
      over == {n \in Actors : pc[n] \in {"free", "done", "failed"}}
      dead(a) == a \in over \ {Start} /\ (listener[a] = NoHost \/ host[listener[a]] # "opened")
  IN
    << TypeOK, remote, recorded, target, calc, listener, pc, todo, broken, crashes, raced,
       [h \in Hosts |-> IF h \in kept \/ host[h] = "opened" THEN host[h] ELSE "none"],
       [a \in Actors |-> IF dead(a) THEN NotLoaded ELSE code[a]],
       [n \in Actors |-> IF n \in over THEN 0 ELSE <<asm[n], rescue[n]>>],
       [n \in Updates |-> << IF Reading(n) THEN ver[n] ELSE 0,
                             IF pc[n] \in ReplacePcs THEN item[n] ELSE Dll,
                             [i \in have[n] \cap Needed(n) |-> got[n][i]] >>],
       causes = {}, lost /\ ~raced >>
=============================================================================

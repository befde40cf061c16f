-------------------------------- MODULE Files --------------------------------
(***************************************************************************)
(* File of src/sys/file.hh: an object that owns the C stream it opens, or  *)
(* borrows one, as the streams of streams.hh borrow stdout.  Objects come  *)
(* and go in any order; they cannot be copied.                             *)
(***************************************************************************)
CONSTANTS File,       \* objects
          Handle,     \* C streams
          Null        \* the null FILE*

ASSUME NullAssumption == Null \notin Handle

VARIABLES f_, autoclose, alive,   \* the objects
          standard,               \* the C streams of the runtime: stdout, ...
          opened                  \* the C streams that are open
filesVars == <<f_, autoclose, alive, standard, opened>>

FilesInit ==
    /\ f_ = [o \in File |-> Null] /\ autoclose = [o \in File |-> TRUE]
    /\ alive = [o \in File |-> FALSE]
    /\ standard \in SUBSET Handle /\ opened = standard

construct(o, h, own) ==
    /\ ~alive[o]
    /\ alive' = [alive EXCEPT ![o] = TRUE]
    /\ f_' = [f_ EXCEPT ![o] = h] /\ autoclose' = [autoclose EXCEPT ![o] = own]
    /\ UNCHANGED standard

\* File(FILE*), the base of a Stream: nobody checks the handle.
borrow(o, h) == h \in opened \cup {Null} /\ construct(o, h, FALSE) /\ UNCHANGED opened

\* File(name): fopen() may fail, and f_ is null then.
open(o, h) ==
    /\ h \in (Handle \ opened) \cup {Null}
    /\ construct(o, h, TRUE)
    /\ opened' = opened \cup ({h} \ {Null})

\* A faulty variant: whoever has a handle closes it.
destroy_closing(o) ==
    /\ alive[o]
    /\ alive' = [alive EXCEPT ![o] = FALSE]
    /\ opened' = opened \ {f_[o]}
    /\ UNCHANGED <<f_, autoclose, standard>>

\* ~File()
destroy(o) ==
    /\ alive[o]
    /\ alive' = [alive EXCEPT ![o] = FALSE]
    /\ opened' = IF autoclose[o] /\ f_[o] # Null THEN opened \ {f_[o]} ELSE opened
    /\ UNCHANGED <<f_, autoclose, standard>>

FilesNext == \E o \in File : destroy(o) \/ \E h \in Handle \cup {Null} : borrow(o, h) \/ open(o, h)

FilesSpec == FilesInit /\ [][FilesNext]_filesVars

-----------------------------------------------------------------------------
Owns(o) == alive[o] /\ autoclose[o] /\ f_[o] # Null

\* In whatever order owners and borrowers die, a C stream is open as long as its
\* one owner lives, and no longer, and nobody closes those of the runtime ("Reuse
\* existing handle (intended for stdin/stdout/stderr, mostly!)", file.hh:14).
OpenWhileOwned ==
    /\ opened = standard \cup {f_[o] : o \in {p \in File : Owns(p)}}
    /\ \A o, p \in File : Owns(o) => f_[o] \notin standard /\ (Owns(p) /\ f_[o] = f_[p] => o = p)
=============================================================================

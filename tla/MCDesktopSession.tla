-------------------------- MODULE MCDesktopSession --------------------------
(***************************************************************************)
(* One configuration for every place where a start can fail, and two good  *)
(* ones; two pages, queues of two records and tasks of up to four          *)
(* versions, so that a queue overflows before and after the first read;    *)
(* two recordings in turn, with chunks that fill the buffer exactly and    *)
(* past it.                                                                *)
(***************************************************************************)
EXTENDS DesktopSession

MCFailsIn == [c \in Config |->
    CASE c \in {"good", "better"} -> "nowhere"
      [] c = "broken" -> "settings"
      [] OTHER        -> c]
=============================================================================

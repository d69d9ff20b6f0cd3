-------------------------- MODULE MCRebasedChunks --------------------------
(***************************************************************************)
(* Small videos for TLC.  The source headers are a plain key frame and a   *)
(* plain interframe, and every header that differs from one of the two in  *)
(* a single respect.                                                       *)
(***************************************************************************)
EXTENDS RebasedChunks

KeyHeader ==
  [ key |-> TRUE, refresh_entropy_probs |-> TRUE, coeff |-> 7, mode |-> Keep,
    lf |-> 1, segmentation |-> Off, refresh_last |-> TRUE,
    refresh_golden |-> TRUE, refresh_alternate |-> TRUE,
    copy_golden |-> "absent", copy_alternate |-> "absent", uses |-> {} ]

PlainHeader ==
  [ key |-> FALSE, refresh_entropy_probs |-> TRUE, coeff |-> Keep,
    mode |-> Keep, lf |-> Keep, segmentation |-> Off, refresh_last |-> TRUE,
    refresh_golden |-> FALSE, refresh_alternate |-> FALSE,
    copy_golden |-> "none", copy_alternate |-> "none", uses |-> {"last"} ]

KeyHeaders ==
  { KeyHeader, [ KeyHeader EXCEPT !.refresh_entropy_probs = FALSE ],
    [ KeyHeader EXCEPT !.lf = Off ] }

InterHeaders ==
  { PlainHeader,
    [ PlainHeader EXCEPT !.coeff = 7, !.refresh_entropy_probs = FALSE ],
    [ PlainHeader EXCEPT !.mode = 7 ],
    [ PlainHeader EXCEPT !.lf = Off ],
    [ PlainHeader EXCEPT !.refresh_last = FALSE, !.uses = Reference ],
    [ PlainHeader EXCEPT !.refresh_golden = TRUE, !.copy_golden = "absent" ],
    [ PlainHeader EXCEPT !.copy_golden = "other", !.copy_alternate = "other",
                         !.uses = {"golden"} ],
    [ PlainHeader EXCEPT !.copy_alternate = "last", !.uses = {"alternative"} ] }

Unsegmented == KeyHeaders \cup InterHeaders
Segmented == { KeyHeader, PlainHeader, [ PlainHeader EXCEPT !.segmentation = 1 ] }
MCBody == 1 .. MaxFrames
=============================================================================

------------------------------ MODULE MCTracks ------------------------------
(***************************************************************************)
(* Both decoders on the same small tracks: layouts of sectors, laid out as *)
(* cells and then damaged in up to two places.                             *)
(***************************************************************************)
EXTENDS Tracks, SequencesExt

Written(i, record, body, deleted, here) ==
  [nth |-> i, record |-> record, body |-> body, deleted |-> deleted, here |-> here]

OneCell(t, s, k) == [t |-> t, of |-> s, k |-> k, read |-> "good"]

Record(s) ==
  <<OneCell("sync", s, 0), OneCell("idmark", s, 0), OneCell("header", s, 0),
    OneCell("gap", s, 0), OneCell("sync", s, 1),
    OneCell(IF s.deleted THEN "delmark" ELSE "datamark", s, 0)>>
  \o [k \in 1..s.body |-> OneCell("body", s, k)]
  \o <<OneCell("crc", s, 0), OneCell("gap", s, 1)>>

Plain(i, record) == Written(i, record, 3, FALSE, TRUE)

\* In order; interleaved; with a control record; with a large sector, in
\* the middle and first; with a sector of another side; with an unknown size
\* code; with a record twice.
Layouts ==
  { <<Plain(1, 0), Plain(2, 1), Plain(3, 2)>>,
    <<Plain(1, 0), Plain(2, 2), Plain(3, 1)>>,
    <<Plain(1, 0), Written(2, 1, 3, TRUE, TRUE), Plain(3, 2)>>,
    <<Plain(1, 0), Written(2, 1, 6, FALSE, TRUE), Plain(3, 2)>>,
    <<Written(1, 0, 6, FALSE, TRUE), Plain(2, 1), Plain(3, 2), Plain(4, 3)>>,
    <<Plain(1, 0), Written(2, 1, 3, FALSE, FALSE), Plain(3, 2)>>,
    <<Plain(1, 0), Written(2, 1, 0, FALSE, TRUE), Plain(3, 2)>>,
    <<Plain(1, 0), Plain(2, 1), Plain(3, 1)>> }

Laid(layout) == FlattenSeq([i \in DOMAIN layout |-> Record(layout[i])])

Clean == {Laid(layout) : layout \in Layouts}

Damage(cells, where, how) ==
  [p \in DOMAIN cells |->
     IF p \in where THEN [cells[p] EXCEPT !.read = how[p]] ELSE cells[p]]

\* Bound: no more than two cells are damaged.
Places(cells) == {{}} \cup {{p, q} : p, q \in DOMAIN cells}
Manners(where) == [where -> {"wrong", "noise"}]

TracksFrom(cells) ==
  {Damage(cells, where[1], where[2]) :
     where \in UNION {{pl} \X Manners(pl) : pl \in Places(cells)}}

\* The hypotheses of the proofs: whatever is damaged, this is how a track is
\* written.
ASSUME TracksAsWritten ==
  \A cells \in Clean : \A t \in TracksFrom(cells) : AsWritten(t) /\ WholeSectors(t)

MCInit ==
  /\ encoding \in {"FM", "MFM"}
  /\ \E cells \in Clean : track \in TracksFrom(cells)
  /\ Start

MCSpec == MCInit /\ [][Decode]_<<vars, encoding>> /\ WF_vars(Decode)
=============================================================================

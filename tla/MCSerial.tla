----------------------------- MODULE MCSerial -----------------------------
(***************************************************************************)
(* Serial with three scanners: one with -CF tables, one with full ones and *)
(* one with compressed ones; their numbers are at the ends of each width.  *)
(***************************************************************************)
EXTENDS Serial

Table(id, flags, hilen, lolen, dm_sz, data) ==
  [td_id |-> id, td_flags |-> flags, td_hilen |-> hilen, td_lolen |-> lolen,
   dm_sz |-> dm_sz, td_data |-> data]

Fast == [version |-> <<50, 54>>, name |-> <<102, 116>>, tables |-> <<
  Table(11, YYTD_DATA32 + YYTD_STRUCT, 0, 3, 2, <<0, -128, 3, 127, 1, 2>>),
  Table(10, YYTD_DATA32 + YYTD_PTRANS, 0, 3, 4, <<0, 1, 2>>),
  Table(5, YYTD_DATA32, 0, 4, 1, <<0, 1, 128, 255>>)>>]
Full == [version |-> <<50, 54>>, name |-> <<102>>, tables |-> <<
  Table(8, YYTD_DATA32, 2, 3, 2, <<0, -2, 3, -32767, 5, -5>>),
  Table(1, YYTD_DATA32, 0, 3, 2, <<0, 16385, 7>>),
  Table(9, YYTD_DATA8, 0, 3, 4, <<0, 1, 1>>)>>]
Compressed == [version |-> <<50, 54>>, name |-> <<116, 102, 116, 102, 116>>, tables |-> <<
  Table(1, YYTD_DATA32, 0, 3, 2, <<0, 127, 3>>),
  Table(2, YYTD_DATA32, 0, 2, 4, <<32768, -40000>>),
  Table(12, YYTD_DATA32, 0, 1, 2, <<8193>>),
  Table(7, YYTD_DATA32, 0, 3, 4, <<1, 2, 127>>)>>]

MCSets == {Fast, Full, Compressed}
\* 2^32 is more than TLC can count.
MCWrap == 2^30

MCKeys == {s.name : s \in MCSets} \cup {<<116>>}
=============================================================================

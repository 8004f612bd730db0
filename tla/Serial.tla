------------------------------- MODULE Serial -------------------------------
(***************************************************************************)
(* Serialized tables: what flex writes (tables.cpp, tables_shared.cpp,     *)
(* tables_shared.h and the mk*tbl() functions of gen.cpp), several files   *)
(* put one behind the other, and the loader of a generated scanner that    *)
(* looks for its own set in them (yytbl_fload() and below in flex.skl).    *)
(*                                                                         *)
(* The file is kept byte for byte; a table is its numbers.                 *)
(***************************************************************************)
EXTENDS Integers, SequencesExt, FiniteSetsExt

CONSTANTS
  Sets,       \* the scanners: version, name and tables of each
  Keys,       \* the names that a loader may look for
  Longs,      \* the widths of a long in the programs that load
  Wrap        \* how many numbers a flex_uint32_t has; no file is half as long
ASSUME WidthsAssumption == Longs \subseteq {32, 64} /\ Wrap \in Nat \ {0}

\* A table as the mk*tbl() functions make it: id, flags, dimensions, numbers;
\* dm_sz is its line of yydmap, the width of an element in the scanner.
YYTD_DATA8 == 1
YYTD_DATA16 == 2
YYTD_DATA32 == 4
YYTD_PTRANS == 8
YYTD_STRUCT == 16
YYTD_ID_TRANSITION == 11

HasFlag(flags, f) == (flags \div f) % 2 = 1
YYTDFLAGS2BYTES(flags) ==
  IF HasFlag(flags, YYTD_DATA8) THEN 1 ELSE IF HasFlag(flags, YYTD_DATA16) THEN 2 ELSE 4
BYTES2TFLAG(n) == n
TFLAGS_CLRDATA(flags) == 8 * (flags \div 8)

yytbl_calc_total_len(td) ==
  td.td_lolen * (IF td.td_hilen > 0 THEN td.td_hilen ELSE 1)
    * (IF td.td_id = YYTD_ID_TRANSITION THEN 2 ELSE 1)

\* The arrays of the generated scanner are wide enough for what is in them.
Fits(n, dm_sz) == CASE dm_sz = 1 -> n \in 0 .. 255
                    [] dm_sz = 2 -> n \in -32768 .. 32767
                    [] dm_sz = 4 -> n \in Int
ASSUME SetsAssumption ==
  \A s \in Sets :
    /\ 0 \notin Range(s.name) \cup Range(s.version)
    /\ \A k \in DOMAIN s.tables :
         LET td == s.tables[k] IN /\ Len(td.td_data) = yytbl_calc_total_len(td)
                                  /\ \A n \in Range(td.td_data) : Fits(n, td.dm_sz)

----------------------------------------------------------------------------
(* Bytes                                                                   *)

\* Network byte order; what does not fit is cut off.
ByteOf(n, width, k) == (n \div 256^(width - k)) % 256
Bytes(n, width) == [k \in 1 .. width |-> ByteOf(n, width, k)]
AllBytes(numbers, width) ==
  [k \in 1 .. Len(numbers) * width |->
     ByteOf(numbers[(k - 1) \div width + 1], width, ((k - 1) % width) + 1)]
Number(b, first) ==
  LET n[k \in 1 .. Len(b)] == IF k = 1 THEN first ELSE 256 * n[k - 1] + b[k] IN n[Len(b)]
Unsigned(b) == Number(b, b[1])
Signed(b) == Number(b, IF b[1] >= 128 THEN b[1] - 256 ELSE b[1])

YYTBL_MAGIC == <<241, 60, 87, 177>>
yypad64(n) == (8 - (n % 8)) % 8
Zeros(n) == [k \in 1 .. n |-> 0]

\* The width that the largest number needs, and the table in it.
Magnitude_Signed(n) == n
Magnitude(n) == IF n < 0 THEN -n ELSE n
min_int_size(td) ==
  LET max == Max({Magnitude(n) : n \in Range(td.td_data)} \cup {0})
  IN  IF max <= 127 THEN 1 ELSE IF max <= 32767 THEN 2 ELSE 4
yytbl_data_compress(td) ==
  LET newsz == min_int_size(td)
      old == YYTDFLAGS2BYTES(td.td_flags)
  IN  IF newsz = old THEN td
      ELSE [td EXCEPT !.td_flags = TFLAGS_CLRDATA(@) + BYTES2TFLAG(newsz),
                      !.td_data = [i \in DOMAIN @ |-> Signed(Bytes(@[i], newsz))]]

\* "detected negative compression": flex_die().
Compressible(td) == min_int_size(td) <= YYTDFLAGS2BYTES(td.td_flags)

----------------------------------------------------------------------------
VARIABLES
  file,           \* the tables of the scanners so far, one behind the other
  pc,             \* "flex" between two runs, "writing", "loading", "tables", then how it ended
  scanner,        \* whose tables are being written
  made,           \* how many of them are
  total_written,  \* of tableswr, ...
  th_ssize_pos,   \* ... from the beginning of file
  written,        \* the sets in the file, where each begins, and how many tables got there
  key, long,      \* what the loader looks for, and how wide its long is; ...
  pos,            \* ... where it is in the file, ...
  bread, th,      \* ... rd.bread, and the header read last
  loaded          \* the tables of the scanner by their id

writer == <<scanner, made, total_written, th_ssize_pos, written>>
loader == <<key, long, pos, bread, th, loaded>>
vars == <<file, pc, writer, loader>>

NoHeader == [th_hsize |-> 0, th_ssize |-> 0, th_name |-> <<>>]
Nobody == [version |-> <<>>, name |-> <<>>, tables |-> <<>>]

Init ==
  /\ file = <<>> /\ pc = "flex" /\ scanner = Nobody /\ made = 0
  /\ total_written = 0 /\ th_ssize_pos = 0 /\ written = <<>>
  /\ key = <<>> /\ long = 64 /\ pos = 0 /\ bread = 0 /\ th = NoHeader /\ loaded = <<>>

----------------------------------------------------------------------------
(* flex                                                                    *)

Patched(bytes, at, new) ==
  [i \in DOMAIN bytes |-> IF i - at \in DOMAIN new THEN new[i - at] ELSE bytes[i]]

\* check_options(): yytbl_writer_init(), yytbl_hdr_init(), yytbl_hdr_fwrite().
th_hsize(s) ==
  LET size == 14 + Len(s.version) + 1 + Len(s.name) + 1
  IN  size + yypad64(size)
WriteHeader(s) ==
  /\ pc = "flex" /\ s \notin {w.set : w \in Range(written)}
  /\ LET fields == YYTBL_MAGIC \o Bytes(th_hsize(s), 4) \o Bytes(0, 4) \o Bytes(0, 2)
                     \o s.version \o <<0>> \o s.name \o <<0>>
         header == fields \o Zeros(yypad64(Len(fields)))
     IN  /\ file' = file \o header
         /\ total_written' = Len(header)
         /\ pc' = IF Len(header) = th_hsize(s) THEN "writing" ELSE "flex_die"
  /\ th_ssize_pos' = Len(file) + 8
  /\ scanner' = s /\ made' = 0 /\ written' = Append(written, [set |-> s, at |-> Len(file), tables |-> 0])
  /\ UNCHANGED loader

\* yytbl_data_fwrite() of the next table, after yytbl_data_compress(): the
\* table, padding from the beginning of the set, and the size of the set so
\* far in its header, which is not counted again.
Counted_Twice(total) == total + 4
Counted(total) == total
Recorded_Never(bytes, total) == bytes
Recorded(bytes, total) == Patched(bytes, th_ssize_pos, Bytes(total, 4))
WriteTable ==
  /\ pc = "writing" /\ made < Len(scanner.tables)
  /\ LET td == yytbl_data_compress(scanner.tables[made + 1])
         width == YYTDFLAGS2BYTES(td.td_flags)
         bytes == Bytes(td.td_id, 2) \o Bytes(td.td_flags, 2)
                    \o Bytes(td.td_hilen, 4) \o Bytes(td.td_lolen, 4) \o AllBytes(td.td_data, width)
         pad == yypad64(total_written + Len(bytes))
         total == total_written + Len(bytes) + pad
     IN  IF Compressible(scanner.tables[made + 1])
         THEN /\ file' = Recorded(file \o bytes \o Zeros(pad), total)
              /\ total_written' = Counted(total) /\ made' = made + 1
              /\ written' = [written EXCEPT ![Len(written)].tables = made + 1]
              /\ pc' = pc
         ELSE pc' = "flex_die" /\ UNCHANGED <<file, total_written, made, written>>
  /\ UNCHANGED <<scanner, th_ssize_pos, loader>>

\* flexend(): all is written, or an error in the input ended the run early.
\* The file stays as it is, and the next run appends its own (cat).
Flexend ==
  /\ pc = "writing"
  /\ pc' = "flex"
  /\ UNCHANGED <<file, writer, loader>>

----------------------------------------------------------------------------
(* The loader                                                              *)

Fload(k) ==
  /\ pc = "flex" /\ file # <<>>
  /\ key' = k /\ long' \in Longs /\ pos' = 0 /\ bread' = 0 /\ pc' = "loading"
  /\ UNCHANGED <<file, writer, th, loaded>>

Left == Len(file) - pos
Part(from, n) == SubSeq(file, from + 1, from + n)
CString(bytes) == SubSeq(bytes, 1, Min({i \in DOMAIN bytes : bytes[i] = 0}) - 1)

\* yytbl_hdr_read() and what yytbl_fload() does with it: a bad magic number or
\* size is fatal, the end of the file an error; the set of another scanner is
\* skipped.  The two sizes are subtracted as flex_uint32_t, and fseek() takes a
\* long: only a narrow one makes what has wrapped round a step back again.  It
\* may go behind the end of the file, where the next header is missing.
SkipBy(h) ==
  LET d == (h.th_ssize - h.th_hsize) % Wrap
  IN  IF long = 64 \/ d < Wrap \div 2 THEN d ELSE d - Wrap
ReadHeader ==
  /\ pc = "loading"
  /\ LET hsize == Unsigned(Part(pos + 4, 4))
         strings == Part(pos + 14, hsize - 14)
         version == CString(strings)
         h == [th_hsize |-> hsize, th_ssize |-> Unsigned(Part(pos + 8, 4)),
               th_name |-> CString(SubSeq(strings, Len(version) + 2, Len(strings)))]
     IN  IF Left < 4 THEN pc' = "error" /\ UNCHANGED <<pos, bread, th>>
         ELSE IF Part(pos, 4) # YYTBL_MAGIC THEN pc' = "fatal" /\ UNCHANGED <<pos, bread, th>>
         ELSE IF Left < 14 THEN pc' = "error" /\ UNCHANGED <<pos, bread, th>>
         ELSE IF hsize < 16 \/ hsize > 1024 THEN pc' = "fatal" /\ UNCHANGED <<pos, bread, th>>
         ELSE IF Left < hsize THEN pc' = "error" /\ UNCHANGED <<pos, bread, th>>
         ELSE /\ th' = h /\ bread' = hsize
              /\ IF h.th_name = key THEN pc' = "tables" /\ pos' = pos + hsize
                 ELSE pc' = pc /\ pos' = pos + hsize + SkipBy(h)
  /\ UNCHANGED <<file, writer, key, long, loaded>>

\* An element in the scanner: the number in the width of its array (YY_CHAR is
\* unsigned), or a pointer into yy_transition, which must be there.
Element(td, n) ==
  IF HasFlag(td.td_flags, YYTD_PTRANS)
  THEN <<IF YYTD_ID_TRANSITION \in DOMAIN loaded THEN "pointer" ELSE "wild", n>>
  ELSE <<"int", IF td.dm_sz = 1 THEN n % 256 ELSE Signed(Bytes(n, td.dm_sz))>>

\* dm_sz of the table in the yydmap of the scanner that loads.
Dm_szOf(id) ==
  {d.dm_sz : d \in {e \in UNION {Range(s.tables) : s \in {t \in Sets : t.name = key}} : e.td_id = id}}

\* yytbl_data_load(): one table and the padding behind it.
LoadTable ==
  /\ pc = "tables" /\ bread < th.th_ssize
  /\ LET id == Unsigned(Part(pos, 2))
         flags == Unsigned(Part(pos + 2, 2))
         width == YYTDFLAGS2BYTES(flags)
         shape == [td_id |-> id, td_flags |-> flags, td_hilen |-> Unsigned(Part(pos + 4, 4)),
                   td_lolen |-> Unsigned(Part(pos + 8, 4))]
         len == yytbl_calc_total_len(shape)
         size == 12 + len * width
         pad == yypad64(bread + size)
         NumberAt(i) == Signed(Part(pos + 12 + (i - 1) * width, width))
     IN  IF Left < 12 THEN pc' = "error" /\ UNCHANGED <<pos, bread, loaded>>
         ELSE IF Dm_szOf(id) = {} THEN pc' = "fatal" /\ UNCHANGED <<pos, bread, loaded>>
         ELSE IF Left < size + pad THEN pc' = "error" /\ UNCHANGED <<pos, bread, loaded>>
         ELSE /\ \E dm_sz \in Dm_szOf(id) :
                   loaded' = [i \in DOMAIN loaded \cup {id} |->
                                IF i # id THEN loaded[i]
                                ELSE [k \in 1 .. len |->
                                        Element([td_flags |-> flags, dm_sz |-> dm_sz], NumberAt(k))]]
              /\ pos' = pos + size + pad /\ bread' = bread + size + pad /\ pc' = pc
  /\ UNCHANGED <<file, writer, key, long, th>>

Loaded ==
  /\ pc = "tables" /\ bread >= th.th_ssize
  /\ pc' = "loaded"
  /\ UNCHANGED <<file, writer, loader>>

Write == (\E s \in Sets : WriteHeader(s)) \/ WriteTable \/ Flexend
Load == ReadHeader \/ LoadTable \/ Loaded
Ended == pc \in {"loaded", "error", "fatal", "flex_die"} /\ UNCHANGED vars
Next == Write \/ (\E k \in Keys : Fload(k)) \/ Load \/ Ended

\* yytbl_fload() is a loop that runs to its end.
Spec == Init /\ [][Next]_vars /\ WF_vars(Load)

----------------------------------------------------------------------------
(* What must be true of it.                                                *)

\* The file is whole 64-bit words, the writer's own checks never fail, and the
\* header of every set holds the size of the set, to the beginning of the next,
\* once a table of it is written: "th_ssize: Size of this entire set, in bytes,
\* including the header, all tables, plus any padding".
SetEnd(k) == IF k = Len(written) THEN Len(file) ELSE written[k + 1].at
SizesRecorded ==
  /\ pc # "flex_die" /\ Len(file) % 8 = 0
  /\ \A k \in DOMAIN written :
       Unsigned(Part(written[k].at + 8, 4)) =
         IF written[k].tables = 0 THEN 0 ELSE SetEnd(k) - written[k].at

\* The tables of a scanner as it should have them.
Expected(td) ==
  [k \in DOMAIN td.td_data |->
     <<IF HasFlag(td.td_flags, YYTD_PTRANS) THEN "pointer" ELSE "int", td.td_data[k]>>]

\* A run that was broken off before its first table leaves a set whose th_ssize
\* is still 0: no loader can skip it.  It is in the way of those behind it.
Mine == {k \in DOMAIN written : written[k].set.name = key}
InTheWay == \E k \in DOMAIN written : written[k].tables = 0 /\ \A j \in Mine : k < j

\* A scanner finds its own tables in the file, wherever they are in it, and
\* every number in them is what flex computed, whatever width it was stored in;
\* it fails only where there are none of its own, or behind a set that cannot be
\* skipped, where a wide long takes it to the end of the file.  Of a run that
\* flex broke off it takes the tables that there are, without an error.
LoadsItsOwn ==
  LET w == written[Min(Mine)]
  IN  /\ pc # "fatal"
      /\ pc = "error" => Mine = {} \/ (long = 64 /\ InTheWay)
      /\ pc = "loaded" =>
           /\ Mine # {} /\ ~InTheWay
           /\ DOMAIN loaded = {w.set.tables[k].td_id : k \in 1 .. w.tables}
           /\ \A k \in 1 .. w.tables : loaded[w.set.tables[k].td_id] = Expected(w.set.tables[k])

\* Loading comes to an end, unless a set that cannot be skipped is in the way of
\* a loader with a narrow long: that one comes back to its header.
LoadEnds ==
  pc = "loading" ~> (pc \in {"loaded", "error"} \/ (long = 32 /\ InTheWay))
=============================================================================

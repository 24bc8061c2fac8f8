------------------------------ MODULE Lampiran ------------------------------
(***************************************************************************)
(* Attachments: a file on disk and its row in dokumen, uploaded first and  *)
(* attached to a document later, withdrawn by a user or swept by the       *)
(* worker when nothing ever claimed it.  The disk and the database commit  *)
(* apart, so every handler is split where a crash or an error can leave    *)
(* one of the two behind.                                                  *)
(***************************************************************************)
EXTENDS FiniteSets, Integers

CONSTANTS Berkas,        \* files; the row of a file has the same name
          Induk,         \* documents that can hold attachments
          Petugas,       \* requests of the web process and workers
          MaksLampiran,  \* maxLampiranPerDokumen, 10 in the code
          BatchYatim,    \* batchPembersihan, 200 in the code
          TakAda         \* no file, no document

ASSUME AsumsiLampiran ==
  /\ MaksLampiran \in Nat \ {0} /\ BatchYatim \in Nat \ {0}
  /\ TakAda \notin Berkas \cup Induk

VARIABLES disk,       \* files the storage holds
          lampiran,   \* [Berkas -> committed row]
          tua,        \* rows older than OrphanTTL
          statusInduk,
          kerja,      \* [Petugas -> what the request has read and holds]
          terputus    \* ghost: rows whose file went and whose commit did not
                      \* answer, or did not come

varsLampiran == <<disk, lampiran, tua, statusInduk, kerja, terputus>>

BarisTiada == [status |-> "tiada", ref |-> TakAda]
Diam == [langkah |-> "diam", d |-> TakAda, i |-> TakAda,
         sapu |-> FALSE, sisa |-> {}, penuh |-> FALSE]

InitLampiran ==
  /\ disk = {} /\ tua = {} /\ terputus = {}
  /\ lampiran = [d \in Berkas |-> BarisTiada]
  /\ statusInduk = [i \in Induk |-> "DRAFT"]
  /\ kerja = [p \in Petugas |-> Diam]

\* LockByID: the row lock is held until the transaction ends.
MemegangBaris == {"hitung", "tempel", "buang", "tandai"}
BarisBebas(d) == \A p \in Petugas : kerja[p].d = d => kerja[p].langkah \notin MemegangBaris

Yatim(d) == lampiran[d] = [status |-> "hidup", ref |-> TakAda]
Jumlah(i) == Cardinality({d \in Berkas : lampiran[d] = [status |-> "hidup", ref |-> i]})

KeKerja(p, langkah) == kerja' = [kerja EXCEPT ![p].langkah = langkah]
\* The end of a request; a sweep goes on with its next candidate.
Lanjut(p) ==
  kerja' = [kerja EXCEPT ![p] =
              IF @.sapu THEN [@ EXCEPT !.langkah = "sapu", !.d = TakAda] ELSE Diam]

(***************************************************************************)
(* Upload: bytes first, row second.                                        *)
(***************************************************************************)
Unggah(p, d) ==
  /\ kerja[p] = Diam /\ lampiran[d] = BarisTiada /\ d \notin disk
  /\ \A q \in Petugas : kerja[q].d # d
  /\ disk' = disk \cup {d}
  /\ kerja' = [kerja EXCEPT ![p] = [Diam EXCEPT !.langkah = "simpan", !.d = d]]
  /\ UNCHANGED <<lampiran, tua, statusInduk, terputus>>

SimpanBaris(p) ==
  /\ kerja[p].langkah = "simpan"
  /\ lampiran' = [lampiran EXCEPT ![kerja[p].d].status = "hidup"]
  /\ Lanjut(p)
  /\ UNCHANGED <<disk, tua, statusInduk, terputus>>

\* Too large, or the insert fails: hapusBerkas, which may itself fail.
BatalUnggah(p) ==
  /\ kerja[p].langkah = "simpan"
  /\ disk' \in {disk, disk \ {kerja[p].d}}
  /\ Lanjut(p)
  /\ UNCHANGED <<lampiran, tua, statusInduk, terputus>>

\* Commit returns an error after the server has committed.
CommitTakTerjawab(p) ==
  /\ kerja[p].langkah = "simpan"
  /\ lampiran' = [lampiran EXCEPT ![kerja[p].d].status = "hidup"]
  /\ disk' = disk \ {kerja[p].d}
  /\ terputus' = terputus \cup {kerja[p].d}
  /\ Lanjut(p)
  /\ UNCHANGED <<tua, statusInduk>>

(***************************************************************************)
(* Tempel: the status of the parent, then the count, then the guarded      *)
(* UPDATE; the parent is not locked.                                       *)
(***************************************************************************)
Tempel(p, d, i) ==
  /\ kerja[p] = Diam /\ Yatim(d) /\ BarisBebas(d) /\ statusInduk[i] # "BATAL"
  /\ kerja' = [kerja EXCEPT ![p] = [Diam EXCEPT !.langkah = "hitung", !.d = d, !.i = i]]
  /\ UNCHANGED <<disk, lampiran, tua, statusInduk, terputus>>

TempelHitung(p) ==
  /\ kerja[p].langkah = "hitung"
  /\ IF Jumlah(kerja[p].i) < MaksLampiran THEN KeKerja(p, "tempel") ELSE Lanjut(p)
  /\ UNCHANGED <<disk, lampiran, tua, statusInduk, terputus>>

TempelSimpan(p) ==
  /\ kerja[p].langkah = "tempel"
  /\ lampiran' = IF Yatim(kerja[p].d)
                 THEN [lampiran EXCEPT ![kerja[p].d].ref = kerja[p].i] ELSE lampiran
  /\ Lanjut(p)
  /\ UNCHANGED <<disk, tua, statusInduk, terputus>>

(***************************************************************************)
(* Hapus: of an orphan, or of an attachment whose parent reads DRAFT.      *)
(***************************************************************************)
BolehHapus(d) == lampiran[d].ref # TakAda => statusInduk[lampiran[d].ref] = "DRAFT"

Hapus(p, d) ==
  /\ kerja[p] = Diam /\ lampiran[d].status = "hidup" /\ BarisBebas(d) /\ BolehHapus(d)
  /\ kerja' = [kerja EXCEPT ![p] = [Diam EXCEPT !.langkah = "buang", !.d = d]]
  /\ UNCHANGED <<disk, lampiran, tua, statusInduk, terputus>>

\* Fault: the row is marked while the file is still to be removed.
TandaiDulu(p) ==
  /\ kerja[p].langkah = "buang"
  /\ lampiran' = [lampiran EXCEPT ![kerja[p].d].status = "dihapus"]
  /\ Lanjut(p)
  /\ UNCHANGED <<disk, tua, statusInduk, terputus>>

\* hapusBerkasDanTandai: the file, then the mark and the commit.
HapusBerkas(p) ==
  /\ kerja[p].langkah = "buang"
  /\ disk' = disk \ {kerja[p].d}
  /\ KeKerja(p, "tandai")
  /\ UNCHANGED <<lampiran, tua, statusInduk, terputus>>

SoftDelete(p) ==
  /\ kerja[p].langkah = "tandai"
  /\ lampiran' = [lampiran EXCEPT ![kerja[p].d].status = "dihapus"]
  /\ terputus' = terputus \ {kerja[p].d}
  /\ Lanjut(p)
  /\ UNCHANGED <<disk, tua, statusInduk>>

(***************************************************************************)
(* BersihkanYatim: one worker at a time, oldest first, each candidate in a *)
(* transaction of its own, checked again under the row lock.               *)
(***************************************************************************)
Kandidat == {d \in tua : Yatim(d)}
Batch == {s \in SUBSET Kandidat :
            Cardinality(s) = IF Cardinality(Kandidat) < BatchYatim
                             THEN Cardinality(Kandidat) ELSE BatchYatim}

Menyapu == {p \in Petugas : kerja[p].sapu}

AmbilBatch(p, s) ==
  kerja' = [kerja EXCEPT ![p] = [Diam EXCEPT !.langkah = "sapu", !.sapu = TRUE,
                                   !.sisa = s, !.penuh = Cardinality(s) = BatchYatim]]

BersihkanYatim(p) ==
  /\ kerja[p] = Diam /\ Menyapu = {}
  /\ \E s \in Batch : s # {} /\ AmbilBatch(p, s)
  /\ UNCHANGED <<disk, lampiran, tua, statusInduk, terputus>>

MasihYatim(d) == Yatim(d)

BersihkanSatu(p, d) ==
  /\ kerja[p].langkah = "sapu" /\ d \in kerja[p].sisa /\ BarisBebas(d)
  /\ kerja' = [kerja EXCEPT ![p].sisa = @ \ {d},
                            ![p].langkah = IF MasihYatim(d) THEN "buang" ELSE "sapu",
                            ![p].d = IF MasihYatim(d) THEN d ELSE TakAda]
  /\ UNCHANGED <<disk, lampiran, tua, statusInduk, terputus>>

\* A full batch is followed by another; a short one was the last.
AkhiriBatch(p) ==
  /\ kerja[p].langkah = "sapu" /\ kerja[p].sisa = {}
  /\ IF kerja[p].penuh /\ Kandidat # {}
     THEN \E s \in Batch : AmbilBatch(p, s)
     ELSE kerja' = [kerja EXCEPT ![p] = Diam]
  /\ UNCHANGED <<disk, lampiran, tua, statusInduk, terputus>>

(***************************************************************************)
(* Errors roll back and release the row; a crash also drops the advisory   *)
(* lock.  What the file lost stays lost.                                   *)
(***************************************************************************)
Sisakan(p) ==
  /\ terputus' = IF kerja[p].langkah = "tandai" THEN terputus \cup {kerja[p].d} ELSE terputus
  /\ UNCHANGED <<disk, lampiran, tua, statusInduk>>

Rollback(p) == kerja[p].langkah \in MemegangBaris /\ Lanjut(p) /\ Sisakan(p)
Mati(p) == kerja[p] # Diam /\ kerja' = [kerja EXCEPT ![p] = Diam] /\ Sisakan(p)

\* The modules the parents belong to, and time.
UbahInduk(i) ==
  /\ \E s \in {"DRAFT", "LANJUT", "BATAL"} :
       /\ <<statusInduk[i], s>> \in {<<"DRAFT", "LANJUT">>, <<"LANJUT", "DRAFT">>,
                                     <<"LANJUT", "BATAL">>}
       /\ statusInduk' = [statusInduk EXCEPT ![i] = s]
  /\ UNCHANGED <<disk, lampiran, tua, kerja, terputus>>

LewatTTL(d) ==
  /\ Yatim(d) /\ d \notin tua /\ tua' = tua \cup {d}
  /\ UNCHANGED <<disk, lampiran, statusInduk, kerja, terputus>>

NextLampiran ==
  \/ \E p \in Petugas :
       \/ SimpanBaris(p) \/ BatalUnggah(p) \/ CommitTakTerjawab(p)
       \/ TempelHitung(p) \/ TempelSimpan(p) \/ HapusBerkas(p) \/ SoftDelete(p)
       \/ BersihkanYatim(p) \/ AkhiriBatch(p) \/ Rollback(p) \/ Mati(p)
  \/ \E p \in Petugas, d \in Berkas :
       \/ Unggah(p, d) \/ Hapus(p, d) \/ BersihkanSatu(p, d)
       \/ \E i \in Induk : Tempel(p, d, i)
  \/ \E i \in Induk : UbahInduk(i)
  \/ \E d \in Berkas : LewatTTL(d)

SpecLampiran == InitLampiran /\ [][NextLampiran]_varsLampiran

(***************************************************************************)
(* Properties.                                                             *)
(***************************************************************************)
TypeOKLampiran ==
  /\ disk \subseteq Berkas /\ tua \subseteq Berkas /\ terputus \subseteq Berkas
  /\ lampiran \in [Berkas -> [status : {"tiada", "hidup", "dihapus"}, ref : Induk \cup {TakAda}]]
  /\ statusInduk \in [Induk -> {"DRAFT", "LANJUT", "BATAL"}]
  /\ \A p \in Petugas : kerja[p].d \in Berkas \cup {TakAda} /\ kerja[p].sisa \subseteq Berkas

\* A live row has its file, unless a deletion is between its two halves or
\* lost the second one; a row marked deleted has left no file behind, which no
\* query could ever name again.  (Upload and hapusBerkasDanTandai, whose
\* orders are opposite.)
BerkasSepadan ==
  \A d \in Berkas :
    /\ lampiran[d].status = "dihapus" => d \notin disk
    /\ lampiran[d].status = "hidup" /\ d \notin disk =>
         \/ d \in terputus
         \/ \E p \in Petugas : kerja[p].d = d /\ kerja[p].langkah = "tandai"

\* The attaching request wins its race with the sweep: no file the worker is
\* removing belongs to a document.
SapuanHanyaYatim ==
  \A p \in Menyapu : kerja[p].langkah \in {"buang", "tandai"} => Yatim(kerja[p].d)

\* What a reader of attachments relies on: rows and files agree across every
\* crash, and the cleanup job only takes what belongs to nobody.
LampiranTerjaga == BerkasSepadan /\ SapuanHanyaYatim

\* src/README.md:695: an attachment can be withdrawn only while its parent is
\* DRAFT.
BuktiTetap ==
  [][\A d \in Berkas : lampiran'[d].status = "dihapus" /\ lampiran[d].status = "hidup" =>
       BolehHapus(d)]_varsLampiran
=============================================================================

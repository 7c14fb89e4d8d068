--------------------------------- MODULE Demo ---------------------------------
(***************************************************************************)
(* The demonstration of test/main.c: for each line of input.txt, main runs *)
(* sinhvien, which hands the numbers of the line on, and voinuoc, which    *)
(* gives each number to the tap that has had less.  The two share          *)
(* voinuoc_input.txt, under the semaphore lock_file.  voinuoc reads a 0    *)
(* when it finds nothing, and tries again.                                 *)
(*                                                                         *)
(* Exec and Join are those of ProcTree: a Join waits for a child that is   *)
(* there, and answers -1 for one that has gone.                            *)
(***************************************************************************)
EXTENDS UserProcs

VARIABLES got,    \* history: the numbers voinuoc has got for this line
          late    \* history: a Join has come after the end of its child

demoVars == <<got, late>>

Starts(q) ==
  /\ pc' = [pc EXCEPT ![q] = q, !["main"] = IF q = "sinhvien" THEN "m13" ELSE "m14"]
  /\ reg' = [reg EXCEPT ![q] = NewReg]
  /\ got' = IF q = "sinhvien" THEN <<>> ELSE got
  /\ UNCHANGED <<vars, code, lock, consoleVars, late>>

\* A Join that finds its child waits for the end; main gives up on -1.
Joins(l, q, next) ==
  /\ ~aborted /\ UNCHANGED <<vars, reg, lock, consoleVars, got>>
  /\ \/ /\ pc["main"] = l /\ pc[q] # "done"
        /\ Goto("main", l \o "w") /\ UNCHANGED late
     \/ /\ pc["main"] = l /\ pc[q] = "done"
        /\ late' = TRUE
        /\ Ends("main", -1)
     \/ /\ pc["main"] = l \o "w" /\ pc[q] = "done"
        /\ IF code[q] = -1 THEN Ends("main", -1) ELSE Goto("main", next)
        /\ UNCHANGED late

-----------------------------------------------------------------------------
(* main.                                                                   *)

MakesLock ==
  /\ At("main", "m2")
  /\ lock' = 1
  /\ Goto("main", "m3")
  /\ UNCHANGED <<vars, reg, consoleVars>>

\* while (n--)
NextLine ==
  LET n == reg["main"].n
  IN  /\ At("main", "m6")
      /\ IF n = 0 THEN Closes("main", "m6", 1, "m20")
         ELSE /\ CreateFile("main", "sv_inp")
              /\ Goto("main", "m7")
              /\ reg' = [reg EXCEPT !["main"].n = n - 1]
              /\ UNCHANGED <<lock, consoleVars>>

\* A line of the input goes to sinhvien_inp.txt.
CopiesLine ==
  \/ /\ Reads("main", "m9", 1)
     /\ Goto("main", IF last'.ret = 1 THEN "m10" ELSE "m11")
  \/ Writes("main", "m10", 3, <<reg["main"].c>>, IF reg["main"].c = LF THEN "m11" ELSE "m9")
  \/ Closes("main", "m11", 3, "m12")

\* tmp.txt goes to the end of the output.
CopiesAnswer ==
  \/ Opens("main", "m16", 3, "tmp", 1, "m17")
  \/ Reads("main", "m17", 3) /\ Goto("main", IF last'.ret = 1 THEN "m18" ELSE "m19")
  \/ Writes("main", "m18", 2, <<reg["main"].c>>, "m17")
  \/ Closes("main", "m19", 3, "m6")

Exits ==
  /\ At("main", "m20")
  /\ Close("main", Id("main", 2))
  /\ Ends("main", 0)
  /\ UNCHANGED <<reg, lock, consoleVars>>

Main ==
  \/ /\ \/ Creates("main", "main", "output", "m2")
        \/ MakesLock
        \/ Opens("main", "m3", 1, "input", 1, "m4")
        \/ Opens("main", "m4", 2, "output", 0, "m5")
        \/ ReadsNumber("main", "m5", 1, -1, "m6")
        \/ NextLine
        \/ Opens("main", "m7", 3, "sv_inp", 0, "m8")
        \/ Creates("main", "m8", "vn_inp", "m9")
        \/ CopiesLine
        \/ CopiesAnswer
        \/ Exits
     /\ UNCHANGED demoVars
  \/ At("main", "m12") /\ Starts("sinhvien")
  \/ At("main", "m13") /\ Starts("voinuoc")
  \/ Joins("m14", "sinhvien", "m15")
  \/ Joins("m15", "voinuoc", "m16")

-----------------------------------------------------------------------------
(* sinhvien.                                                               *)

\* Fault: the lock is free after each character of a number.
CopiesNumber_Unlocks ==
  \/ Waits("sinhvien", "s4", "s5")
  \/ Writes("sinhvien", "s5", 2, <<reg["sinhvien"].c>>, "s5a")
  \/ Signals("sinhvien", "s5a", "s6")
  \/ Reads("sinhvien", "s6", 1) /\ Goto("sinhvien", IF IsDigit(Got) THEN "s4" ELSE "s6a")
  \/ Waits("sinhvien", "s6a", "s7")
  \/ Writes("sinhvien", "s7", 2, <<SP>>, "s8")

\* A number, to its last digit, and a blank, under the lock.
CopiesNumber ==
  \/ Waits("sinhvien", "s4", "s5")
  \/ Writes("sinhvien", "s5", 2, <<reg["sinhvien"].c>>, "s6")
  \/ Reads("sinhvien", "s6", 1) /\ Goto("sinhvien", IF IsDigit(Got) THEN "s5" ELSE "s7")
  \/ Writes("sinhvien", "s7", 2, <<SP>>, "s8")

SinhVien ==
  /\ \/ Opens("sinhvien", "sinhvien", 1, "sv_inp", 1, "s2")
     \/ Opens("sinhvien", "s2", 2, "vn_inp", 0, "s3")
     \/ /\ Reads("sinhvien", "s3", 1)
        /\ Goto("sinhvien", IF IsDigit(Got) THEN "s4"
                            ELSE IF last'.ret = 1 THEN "s3" ELSE "s9")
     \/ CopiesNumber
     \/ Signals("sinhvien", "s8", IF reg["sinhvien"].i = 1 THEN "s3" ELSE "s9")
     \/ Waits("sinhvien", "s9", "s10")
     \/ Writes("sinhvien", "s10", 2, <<DASH, LF>>, "s11")
     \/ Signals("sinhvien", "s11", "s12")
     \/ /\ At("sinhvien", "s12")
        /\ Close("sinhvien", Id("sinhvien", 2))
        /\ Ends("sinhvien", 0)
        /\ UNCHANGED <<reg, lock, consoleVars>>
  /\ UNCHANGED demoVars

-----------------------------------------------------------------------------
(* voinuoc.                                                                *)


Tap(s) == IF s[1] <= s[2] THEN 1 ELSE 2

\* Signal, then the tap.
TakesNumber ==
  LET r == reg["voinuoc"]
  IN  /\ At("voinuoc", "v6")
      /\ lock' = lock + 1
      /\ Goto("voinuoc", IF r.n = -1 THEN "v8" ELSE IF r.n > 0 THEN "v7" ELSE "v4")
      /\ reg' = [reg EXCEPT !["voinuoc"].s =
                   IF r.n = -1 THEN @ ELSE [@ EXCEPT ![Tap(@)] = @ + r.n],
                   !["voinuoc"].i = Tap(r.s), !["voinuoc"].n = -1]
      /\ got' = IF r.n > 0 THEN Append(got, r.n) ELSE got
      /\ UNCHANGED <<vars, consoleVars, late>>

VoiNuoc ==
  \/ TakesNumber
  \/ /\ \/ Opens("voinuoc", "voinuoc", 1, "vn_inp", 0, "v2")
        \/ Creates("voinuoc", "v2", "tmp", "v3")
        \/ Opens("voinuoc", "v3", 2, "tmp", 0, "v4")
        \/ Waits("voinuoc", "v4", "v5")
        \/ ReadsNumber("voinuoc", "v5", 1, DASH, "v6")
        \/ Writes("voinuoc", "v7", 2, <<Digit(reg["voinuoc"].i), SP>>, "v4")
        \/ Writes("voinuoc", "v8", 2, <<LF>>, "v9")
        \/ Closes("voinuoc", "v9", 1, "v10")
        \/ /\ At("voinuoc", "v10")
           /\ Close("voinuoc", Id("voinuoc", 2))
           /\ Ends("voinuoc", 0)
           /\ UNCHANGED <<reg, lock, consoleVars>>
     /\ UNCHANGED demoVars

DemoNext == Main \/ SinhVien \/ VoiNuoc
=============================================================================

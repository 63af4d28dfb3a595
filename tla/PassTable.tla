--------------------------------- MODULE PassTable ---------------------------------
(***************************************************************************)
(* The table of pump.c by which a pump finds the function that passes a      *)
(* buffer from its source to its destination: for two memory types and for   *)
(* one or several planes at either end.                                      *)
(***************************************************************************)
EXTENDS Integers

(* Mutant of pass_func_table: the last of the DMABUF entries is missing. *)
pass_func_table_short == {
  <<"DMABUF_EXPORT", "DMABUF_IMPORT", TRUE, TRUE, "passDmabufMP">>,
  <<"DMABUF_EXPORT", "DMABUF_IMPORT", FALSE, FALSE, "passDmabufSP">>,
  <<"DMABUF_EXPORT", "DMABUF_IMPORT", TRUE, FALSE, "passDmabufMPtoSP">>}

(* Entries: memory of source and destination, whether each is multiplanar,    *)
(* and the function                                                           *)
pass_func_table == {
  <<"DMABUF_EXPORT", "DMABUF_IMPORT", TRUE, TRUE, "passDmabufMP">>,
  <<"DMABUF_EXPORT", "DMABUF_IMPORT", FALSE, FALSE, "passDmabufSP">>,
  <<"DMABUF_EXPORT", "DMABUF_IMPORT", TRUE, FALSE, "passDmabufMPtoSP">>,
  <<"DMABUF_EXPORT", "DMABUF_IMPORT", FALSE, TRUE, "passDmabufSPtoMP">>,
  <<"MMAP", "USERPTR", FALSE, FALSE, "passMmapToUserptrSP">>,
  <<"MMAP", "USERPTR", TRUE, FALSE, "passMmapMPToUserptrSP">>,
  <<"MMAP", "MMAP", TRUE, FALSE, "passMmapMPToMmapSP">>}

(* The functions found for two streams, none where pumpCreate would return    *)
(* NULL.  The comparison of their planes compares the source with itself and  *)
(* rejects nothing.                                                           *)
getPassFunc(src, dst) ==
  {te[5] : te \in {t \in pass_func_table :
                     /\ t[1] = src.memory /\ t[2] = dst.memory
                     /\ t[3] = src.mplane /\ t[4] = dst.mplane}}
====================================================================================

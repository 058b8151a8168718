----------------------------- MODULE QpCommands -----------------------------
(***************************************************************************)
(* The commands that create and connect a queue pair (src/src/ep_ibgda/    *)
(* mlx5gda.cpp) in the bit layouts of src/include/ep_ibgda/mlx5_ifc.h and  *)
(* mlx5_prm.h.                                                             *)
(*                                                                         *)
(* A layout is the list of the fields of a structure with their widths in  *)
(* bits, in order; fields the code never touches are merged into gaps      *)
(* (named "").  A command buffer starts zeroed and is the set of the values *)
(* placed in it, as triples <<first bit, width, value>>.                   *)
(***************************************************************************)
EXTENDS Integers, Sequences

Gap(bits) == << <<"", bits>> >>

\* BitsTo(layout)[k]: the bits of the first k fields.
BitsTo(layout) ==
    LET bits[k \in 0 .. Len(layout)] == IF k = 0 THEN 0 ELSE bits[k - 1] + layout[k][2]
    IN bits
Bits(layout) == BitsTo(layout)[Len(layout)]

\* Where a structure has each of its fields: first bit and width.
Struct(layout) ==
    [f \in {layout[i][1] : i \in DOMAIN layout} \ {""} |->
        LET k == CHOOSE i \in DOMAIN layout : layout[i][1] = f
        IN <<BitsTo(layout)[k - 1], layout[k][2]>>]

\* The values of f and, where it has none, of g.
Over(f, g) == [x \in DOMAIN f \cup DOMAIN g |-> IF x \in DOMAIN f THEN f[x] ELSE g[x]]

-----------------------------------------------------------------------------
(* Structures.                                                             *)

Ads == << <<"", 16>>, <<"pkey_index", 16>>, <<"", 16>>, <<"rlid", 16>>,
          <<"ack_timeout", 5>>, <<"", 3>>, <<"src_addr_index", 8>>, <<"", 8>>,
          <<"hop_limit", 8>>, <<"", 32>>, <<"rgid_rip", 128>>, <<"", 16>>,
          <<"udp_sport", 16>>, <<"", 4>>, <<"sl", 4>>, <<"vhca_port_num", 8>>,
          <<"rmac", 48>> >>

\* The queue pair context before and after its two address paths.
QpcHead ==
    << <<"", 8>>, <<"st", 8>>, <<"", 3>>, <<"pm_state", 2>>, <<"", 19>>,
       <<"pd", 24>>, <<"mtu", 3>>, <<"log_msg_max", 5>>, <<"", 1>>,
       <<"log_rq_size", 4>>, <<"", 4>>, <<"log_sq_size", 4>>, <<"", 19>>,
       <<"uar_page", 24>>, <<"", 8>>, <<"user_index", 24>>, <<"", 8>>,
       <<"remote_qpn", 24>> >>
QpcTail ==
    << <<"log_ack_req_freq", 4>>, <<"", 4>>, <<"log_sra_max", 3>>, <<"", 2>>,
       <<"retry_count", 3>>, <<"rnr_retry", 3>>, <<"", 53>>,
       <<"next_send_psn", 24>>, <<"", 8>>, <<"cqn_snd", 24>>, <<"", 136>>,
       <<"log_rra_max", 3>>, <<"", 1>>, <<"atomic_mode", 4>>, <<"rre", 1>>,
       <<"rwe", 1>>, <<"rae", 1>>, <<"", 1>>, <<"page_offset", 6>>, <<"", 9>>,
       <<"min_rnr_nak", 5>>, <<"", 88>>, <<"dbr_addr", 64>>, <<"", 37>>,
       <<"rq_type", 3>>, <<"", 283>>, <<"dbr_umem_valid", 1>>, <<"", 156>>,
       <<"dbr_umem_id", 32>> >>
Qpc == QpcHead \o Ads \o Gap(Bits(Ads)) \o QpcTail

Cqc == << <<"", 6>>, <<"dbr_umem_valid", 1>>, <<"", 1>>, <<"cqe_sz", 3>>,
          <<"cc", 1>>, <<"", 2>>, <<"oi", 1>>, <<"", 17>>, <<"dbr_umem_id", 32>>,
          <<"", 35>>, <<"log_cq_size", 5>>, <<"uar_page", 24>>, <<"", 56>>,
          <<"c_eqn", 8>>, <<"", 256>>, <<"dbr_addr", 64>> >>

CreateCqIn ==
    Struct(<< <<"opcode", 16>>, <<"", 112>> >> \o Cqc \o
           << <<"cq_umem_offset", 64>>, <<"cq_umem_id", 32>>, <<"cq_umem_valid", 1>>,
              <<"", 1439>> >>)
CreateCqOut == Struct(<< <<"", 72>>, <<"cqn", 24>>, <<"", 32>> >>)

CreateQpIn ==
    Struct(<< <<"opcode", 16>>, <<"", 176>> >> \o Qpc \o
           << <<"wq_umem_offset", 64>>, <<"wq_umem_id", 32>>, <<"wq_umem_valid", 1>>,
              <<"", 31>> >>)
CreateQpOut == Struct(<< <<"", 72>>, <<"qpn", 24>>, <<"", 32>> >>)

\* Mutant: the structure lacks opt_param_mask.
Rst2InitInNoMask ==
    Struct(<< <<"opcode", 16>>, <<"", 56>>, <<"qpn", 24>>, <<"", 64>> >> \o Qpc \o Gap(128))

Rst2InitIn ==
    Struct(<< <<"opcode", 16>>, <<"", 56>>, <<"qpn", 24>>, <<"", 96>> >> \o Qpc \o Gap(128))
Init2RtrIn ==
    Struct(<< <<"opcode", 16>>, <<"", 56>>, <<"qpn", 24>>, <<"", 96>> >> \o Qpc \o Gap(128))
Rtr2RtsIn ==
    Struct(<< <<"opcode", 16>>, <<"", 56>>, <<"qpn", 24>>, <<"", 96>> >> \o Qpc \o Gap(128))

\* cqe_version is the field at bit 508 of cmd_hca_cap, one view of the union that
\* the answer holds.
CmdHcaCap == << <<"", 508>>, <<"cqe_version", 4>> >>
HcaCapUnion == CmdHcaCap \o Gap(32768 - Bits(CmdHcaCap))
QueryHcaCapIn == Struct(<< <<"opcode", 16>>, <<"", 32>>, <<"op_mod", 16>>, <<"", 64>> >>)
QueryHcaCapOut == Struct(Gap(128) \o HcaCapUnion)

Opcode == [QUERY_HCA_CAP |-> 256, CREATE_CQ |-> 1024, CREATE_QP |-> 1280,
           RST2INIT_QP |-> 1282, INIT2RTR_QP |-> 1283, RTR2RTS_QP |-> 1284]

\* Values of fields.
CapMode == [GET_MAX |-> 0, GET_CUR |-> 1]
CapType == [GENERAL |-> 0, ODP |-> 2, ATOMIC |-> 3, ROCE |-> 4]
CapOpMod == [GENERAL_DEVICE |-> 2 * 0, ROCE |-> 2 * 4, NIC_FLOW_TABLE |-> 2 * 7,
             ESW_FLOW_TABLE |-> 2 * 8, ESW |-> 2 * 9, QOS |-> 2 * 12,
             DEVICE_MEMORY |-> 2 * 15, CRYPTO |-> 2 * 26, GENERAL_DEVICE_CAP_2 |-> 2 * 32]
QpcStRc == 0
PmStateMigrated == 3
CqeSize == [B64 |-> 0, B128 |-> 1]
ZeroSizeRq == 3

-----------------------------------------------------------------------------
(* DEVX_SET and DEVX_GET.                                                  *)

\* A value is cut to the width of its field (the wide ones are never cut here).
Cut(v, bits) == IF bits > 30 THEN v ELSE v % 2 ^ bits

Set(struct, values) ==
    {<<struct[f][1], struct[f][2], Cut(values[f], struct[f][2])>> : f \in DOMAIN values}

\* What is read from the place of a field: garbage if other bits overlap it.
Garbled == -1
Get(cmd, struct, f) ==
    LET a   == struct[f][1]
        w   == struct[f][2]
        hit == {x \in cmd : x[1] < a + w /\ a < x[1] + x[2]}
    IN IF hit = {} THEN 0
       ELSE IF \A x \in hit : hit = {x} /\ <<x[1], x[2]>> = <<a, w>>
            THEN (CHOOSE x \in hit : TRUE)[3] ELSE Garbled

-----------------------------------------------------------------------------
(* The commands of mlx5gda.cpp.                                            *)

\* IBGDA_ILOG2 and __builtin_ctz of a power of two.
Log2(n) == CHOOSE k \in 0 .. 30 : 2 ^ k = n
RoundUpPow2(n) == CHOOSE p \in {2 ^ k : k \in 0 .. 30} :
                      p >= n /\ \A k \in 0 .. 30 : 2 ^ k >= n => p <= 2 ^ k

\* The two even codes and the mode are or'ed together: they are sums here, for one
\* of the codes is zero.
QueryCap ==
    Set(QueryHcaCapIn,
        [opcode |-> Opcode.QUERY_HCA_CAP,
         op_mod |-> CapOpMod.GENERAL_DEVICE + 2 * CapType.GENERAL + CapMode.GET_CUR])
VersionSupported(out) == Get(out, QueryHcaCapOut, "cqe_version") = 1

CreateCqCmd(umem, offset, dbr, entries, uar, eqn) ==
    Set(CreateCqIn,
        [opcode |-> Opcode.CREATE_CQ, cq_umem_id |-> umem, cq_umem_valid |-> 1,
         cq_umem_offset |-> offset, dbr_umem_valid |-> 1, cqe_sz |-> CqeSize.B64, cc |-> 1,
         oi |-> 1, dbr_umem_id |-> umem, log_cq_size |-> Log2(entries),
         uar_page |-> uar, c_eqn |-> eqn, dbr_addr |-> dbr])

CreateQpCmd(umem, offset, dbr, entries, uar, cqn, pdn) ==
    Set(CreateQpIn,
        [opcode |-> Opcode.CREATE_QP, wq_umem_id |-> umem, wq_umem_offset |-> offset,
         wq_umem_valid |-> 1, st |-> QpcStRc, pm_state |-> PmStateMigrated, pd |-> pdn,
         uar_page |-> uar, rq_type |-> ZeroSizeRq, cqn_snd |-> cqn,
         log_sq_size |-> Log2(entries), log_rq_size |-> 0, dbr_umem_valid |-> 1,
         dbr_addr |-> dbr, dbr_umem_id |-> umem, user_index |-> 0, page_offset |-> 0])

\* The three modify commands are all written in the layout of the first one.
Rst2InitCmd(qpn, port, pkey, link) ==
    Set(Rst2InitIn, Over(
        [opcode |-> Opcode.RST2INIT_QP, qpn |-> qpn, rwe |-> 1, rre |-> 1, rae |-> 1,
         atomic_mode |-> 3, vhca_port_num |-> port, pm_state |-> PmStateMigrated],
        IF link = "ib" THEN [pkey_index |-> pkey] ELSE << >>))

Init2RtrCmd(qpn, remote, ah, link) ==
    Set(Rst2InitIn, Over(
        [opcode |-> Opcode.INIT2RTR_QP, qpn |-> qpn, mtu |-> 5, log_msg_max |-> 30,
         remote_qpn |-> remote, min_rnr_nak |-> 7, log_rra_max |-> 1],
        IF link = "ib" THEN [sl |-> 0, rlid |-> ah.dlid]
        ELSE [rmac |-> ah.gid, hop_limit |-> 255, src_addr_index |-> ah.sgid,
              udp_sport |-> ah.dlid, rgid_rip |-> ah.gid]))

Rtr2RtsCmd(qpn) ==
    Set(Rst2InitIn,
        [opcode |-> Opcode.RTR2RTS_QP, qpn |-> qpn, log_ack_req_freq |-> 0,
         log_sra_max |-> 1, next_send_psn |-> 0, retry_count |-> 7, rnr_retry |-> 7,
         ack_timeout |-> 20])

-----------------------------------------------------------------------------
(* The device (external): it reads each command in its own layout.         *)

LayoutOf(op) == CASE op = Opcode.CREATE_CQ   -> CreateCqIn
                  [] op = Opcode.CREATE_QP   -> CreateQpIn
                  [] op = Opcode.RST2INIT_QP -> Rst2InitIn
                  [] op = Opcode.INIT2RTR_QP -> Init2RtrIn
                  [] op = Opcode.RTR2RTS_QP  -> Rtr2RtsIn

\* The fields of the context that a command may change.
Takes(op) ==
    CASE op = Opcode.CREATE_CQ ->
             {"cq_umem_id", "cq_umem_offset", "cq_umem_valid", "dbr_umem_valid",
              "cqe_sz", "cc", "oi", "dbr_umem_id", "log_cq_size", "uar_page", "c_eqn",
              "dbr_addr"}
      [] op = Opcode.CREATE_QP ->
             {"wq_umem_id", "wq_umem_offset", "wq_umem_valid", "st", "pd", "uar_page",
              "rq_type", "cqn_snd", "log_sq_size", "dbr_umem_valid", "dbr_addr",
              "dbr_umem_id"}
      [] op = Opcode.RST2INIT_QP ->
             {"rwe", "rre", "rae", "atomic_mode", "vhca_port_num", "pkey_index",
              "pm_state"}
      [] op = Opcode.INIT2RTR_QP ->
             {"mtu", "log_msg_max", "remote_qpn", "min_rnr_nak", "log_rra_max", "sl",
              "rlid", "rmac", "hop_limit", "src_addr_index", "udp_sport", "rgid_rip"}
      [] op = Opcode.RTR2RTS_QP ->
             {"log_sra_max", "next_send_psn", "retry_count", "rnr_retry",
              "ack_timeout", "log_ack_req_freq"}

\* The context after a command that the device accepts.
Apply(ctx, cmd) ==
    LET op == Get(cmd, Rst2InitIn, "opcode")
    IN Over([f \in Takes(op) |-> Get(cmd, LayoutOf(op), f)], ctx)
=============================================================================

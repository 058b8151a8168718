------------------------------ MODULE MCSetup ------------------------------
(* Three ranks, a queue pair for each with rings of the real size; the     *)
(* control buffer holds four.  The table of blocks has four entries per    *)
(* queue pair, as 1024 entries for 256 queue pairs.                        *)
EXTENDS EpSetup

ASSUME RealSizes == Geometry /\ Distinct /\ NumbersFit

Host(link, cqe, gids, env, fabric, devices) ==
    [link |-> link, cqe |-> cqe, gids |-> gids, ipcEnv |-> env,
     fabricDevices |-> fabric, devices |-> devices]

\* InfiniBand over two nodes; RoCE with one device per node; a device whose queue
\* pairs are refused, in one node; a port without a usable GID, with fabric memory.
AllHosts ==
    {Host("ib", 1, <<"ib">>, "unset", 0, 2),
     Host("roce", 1, <<"unreadable", "v2", "v2mapped">>, "0", 0, 1),
     Host("ib", 0, <<"ib">>, "1", 2, 3),
     Host("roce", 1, <<"v1", "v2">>, "0", 3, 3)}

OneHost == {Host("ib", 1, <<"ib">>, "unset", 0, 2)}
\* One node with fabric memory.
FabricHost == {Host("ib", 1, <<"ib">>, "0", 3, 3)}

\* Every call of the constructor may fail.
ConstructorCalls ==
    {"cuDeviceGet", "granularity", "cuMemCreate", "cuMemAddressReserve", "cuMemMap",
     "cuMemSetAccess", "cudaMalloc", "stream", "deviceName",
     "ibv_open_device", "ibv_query_port", "ibv_query_gid", "ibv_alloc_pd",
     "mlx5dv_init_obj", "ibv_reg_mr", "ctrlBuf", "umem", "memheap_create", "workspace"}
    \cup TableNames
AllFailures == ConstructorCalls \cup FailurePoints
\* Only the last step of a creation may fail.
Rst2InitFails == {"rst2init"}
=============================================================================

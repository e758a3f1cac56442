---------------------------- MODULE ServiceWiring ----------------------------
(***************************************************************************)
(* How each service of the platform is put together: what its server.ts    *)
(* connects and disconnects, and in which order; what its container starts *)
(* and stops; which dependency each worker uses; which ones its readiness  *)
(* probe asks.  ServiceLifecycle runs these tables.                        *)
(*                                                                         *)
(* A step of "start" or "stop" is the set of things the code awaits        *)
(* together with Promise.all; the steps are awaited one after the other.   *)
(***************************************************************************)
EXTENDS Sequences

Services ==
  {"booking", "inventory", "payment", "user", "admin", "search", "notification", "gateway"}

(* Connections that server.ts opens, and gRPC channels that a container    *)
(* opens when it is built.                                                 *)
Connections == {"prisma", "redis", "kafka", "elasticsearch"}
Channels == {"inventoryChannel", "paymentChannel"}

(* What each init call of config/ may come to besides an open connection:  *)
(* a rejection, or a connect given up by its timeout that succeeds later.  *)
(* initElasticsearch only logs.                                            *)
initPrisma == {"rejected", "late"}
initRedis == {"rejected", "late"}
initKafka == {"rejected", "late"}
initElasticsearch == {}

initOutcomes ==
  [prisma |-> initPrisma, redis |-> initRedis, kafka |-> initKafka,
   elasticsearch |-> initElasticsearch]

Database == <<"prisma", "redis", "kafka">>
DatabaseClosed == <<"kafka", "redis", "prisma">>

-----------------------------------------------------------------------------
(* Booking service, with one channel for each client it makes.             *)
inventoryClient == "inventoryChannel"
paymentClient == "paymentChannel"

bookingServer ==
  [mode |-> "http", connect |-> Database, grpc |-> <<>>,
   close |-> <<inventoryClient, paymentClient>> \o DatabaseClosed,
   fallback |-> <<inventoryClient, paymentClient>> \o DatabaseClosed]

(* What the constructor hands to each worker and to the controllers. *)
bookingUses ==
  [outbox |-> {"prisma", "kafka"},
   statusBroadcast |-> {"redis"},
   seatsResult |-> {"prisma", "redis", "kafka"},
   paymentResult |-> {"prisma", "redis", "kafka"},
   http |-> {"prisma", "redis", inventoryClient, paymentClient}]

bookingContainer ==
  [start |-> <<{"outbox"}, {"statusBroadcast"}, {"seatsResult"}, {"paymentResult"}>>,
   stop |-> <<{"statusBroadcast"}, {"seatsResult"}, {"paymentResult"}, {"outbox"}>>]

bookingProbes == {"prisma", "redis", "kafka"}

-----------------------------------------------------------------------------
(* Inventory service.                                                      *)
inventoryGrpc == <<{"grpcServer"}>>

inventoryServer ==
  [mode |-> "http", connect |-> Database, grpc |-> inventoryGrpc,
   close |-> DatabaseClosed, fallback |-> DatabaseClosed]

inventoryUses ==
  [outbox |-> {"prisma", "kafka"},
   scheduleCreated |-> {"prisma", "kafka"},
   scheduleStatusChanged |-> {"prisma", "kafka"},
   holdSeats |-> {"prisma", "redis", "kafka"},
   bookingStatusChanged |-> {"prisma", "redis", "kafka"},
   grpcServer |-> {"prisma", "redis"},
   http |-> {}]

inventoryConsumers ==
  {"scheduleCreated", "scheduleStatusChanged", "holdSeats", "bookingStatusChanged"}

inventoryContainer ==
  [start |-> <<{"outbox"}, inventoryConsumers>>,
   stop |-> <<{"outbox"} \cup inventoryConsumers>>]

inventoryProbes == {"prisma", "redis", "kafka"}

-----------------------------------------------------------------------------
(* Payment service.                                                        *)
paymentGrpc == <<{"grpcServer"}>>

paymentServer ==
  [mode |-> "http", connect |-> Database, grpc |-> paymentGrpc,
   close |-> DatabaseClosed, fallback |-> DatabaseClosed]

paymentUses ==
  [outbox |-> {"prisma", "kafka"}, grpcServer |-> {"prisma"}, http |-> {"prisma"}]

paymentContainer == [start |-> <<{"outbox"}>>, stop |-> <<{"outbox"}>>]

paymentProbes == {"prisma", "redis", "kafka"}

-----------------------------------------------------------------------------
(* User service: nothing runs beside its HTTP server.                      *)
userServer ==
  [mode |-> "http", connect |-> Database, grpc |-> <<>>,
   close |-> DatabaseClosed, fallback |-> DatabaseClosed]

userUses == [http |-> {"prisma", "redis", "kafka"}]

userProbes == {"prisma", "redis", "kafka"}

-----------------------------------------------------------------------------
(* Admin service.                                                          *)
adminServer ==
  [mode |-> "http", connect |-> <<"prisma", "kafka">>, grpc |-> <<>>,
   close |-> <<"kafka", "prisma">>, fallback |-> <<"kafka", "prisma">>]

adminUses == [outbox |-> {"prisma", "kafka"}, http |-> {"prisma"}]

adminContainer == [start |-> <<{"outbox"}>>, stop |-> <<{"outbox"}>>]

adminProbes == {"prisma", "kafka"}

-----------------------------------------------------------------------------
(* Search service.  Starting begins with the two ensureIndex calls, which  *)
(* may fail and leave nothing to stop; its disconnect logs the consumers   *)
(* it could not stop and goes on to close the channel.                     *)
searchClient == "inventoryChannel"
ensureStationIndex == {}
ensureTrainIndex == {}

searchServer ==
  [mode |-> "http", connect |-> <<"elasticsearch", "redis", "kafka">>, grpc |-> <<>>,
   close |-> <<"kafka", "redis", "elasticsearch">>,
   fallback |-> <<"kafka", "redis", "elasticsearch">>]

searchUses ==
  [station |-> {"elasticsearch", "redis", "kafka"},
   schedule |-> {"elasticsearch", "redis", "kafka"},
   http |-> {"elasticsearch", "redis", searchClient}]

searchContainer ==
  [start |-> <<ensureStationIndex, ensureTrainIndex, {"station"}, {"schedule"}>>,
   stop |-> <<{"station", "schedule"}, {searchClient}>>]

searchProbes == {"elasticsearch", "redis", "kafka"}

-----------------------------------------------------------------------------
(* Notification service: a worker without an HTTP server.                  *)
notificationServer ==
  [mode |-> "worker", connect |-> <<"redis", "kafka">>, grpc |-> <<>>,
   close |-> <<"kafka", "redis">>, fallback |-> <<"kafka", "redis">>]

notificationUses == [otp |-> {"redis"}, welcome |-> {"redis"}, http |-> {}]

notificationContainer ==
  [start |-> <<{"otp", "welcome"}>>, stop |-> <<{"otp", "welcome"}>>]

-----------------------------------------------------------------------------
(* API gateway.                                                            *)
gatewayServer ==
  [mode |-> "http", connect |-> <<"redis">>, grpc |-> <<>>,
   close |-> <<"redis">>, fallback |-> <<"redis">>]

gatewayUses == [http |-> {"redis"}]

gatewayProbes == {"redis"}

-----------------------------------------------------------------------------
(* The tables by service.                                                  *)
NoContainer == [start |-> <<>>, stop |-> <<>>]

server ==
  [booking |-> bookingServer, inventory |-> inventoryServer, payment |-> paymentServer,
   user |-> userServer, admin |-> adminServer, search |-> searchServer,
   notification |-> notificationServer, gateway |-> gatewayServer]

container ==
  [booking |-> bookingContainer, inventory |-> inventoryContainer,
   payment |-> paymentContainer, user |-> NoContainer, admin |-> adminContainer,
   search |-> searchContainer, notification |-> notificationContainer,
   gateway |-> NoContainer]

uses ==
  [booking |-> bookingUses, inventory |-> inventoryUses, payment |-> paymentUses,
   user |-> userUses, admin |-> adminUses, search |-> searchUses,
   notification |-> notificationUses, gateway |-> gatewayUses]

probes ==
  [booking |-> bookingProbes, inventory |-> inventoryProbes, payment |-> paymentProbes,
   user |-> userProbes, admin |-> adminProbes, search |-> searchProbes,
   notification |-> {}, gateway |-> gatewayProbes]

(* Everything a container starts, and the channels its wiring opens. *)
workersOf(s) == DOMAIN uses[s] \ {"http"}
channelsOf(s) == (UNION {uses[s][w] : w \in DOMAIN uses[s]}) \cap Channels
=============================================================================

SPECIFICATION Spec
CONSTANTS
  elastic = elastic  elasticAlert = elasticAlert  webhookAlert = webhookAlert
  noTrigger = noTrigger  tags = tags  severity = severity  x = x  y = y
  Webhook = Webhook
  Sources = {elastic, Webhook}
  AlertOf <- AlertTypes
  Playbooks = {1, 2}
  Metas <- AllMetas
  Payloads <- AllPayloads
INVARIANTS MatchExact NothingLingers
CHECK_DEADLOCK FALSE

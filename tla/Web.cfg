\* Every page and algorithm of the web client, one at a time. The pages of the
\* models that count what the user does end where the count does.
SPECIFICATION WebSpec
CONSTANTS
  Topics = {"health", "access", "dag", "linediff", "chains", "grid", "catalog", "instances page", "instance table", "revisions", "events", "fleet", "rgd page", "overview", "browser", "node panel", "author", "designer"}
  \* InstanceHealth
  Nodes <- MCNodes
  Unlabelled = "none"
  NodeType <- MCNodeType
  IncludeWhen = {"deploy"}
  Statuses <- MCStatuses
  ChildStatuses <- MCChildStatuses
  MaxChildren = 2
  \* AccessCheck
  Kinds = {"svc", "policy"}
  Irregular = {"policy"}
  ReadOnlyVerbs = {"get"}
  ManagedVerbs = {"get", "create"}
  Roles = {"viewer", "keeper", "sum"}
  RoleRules <- MCRoleRules
  Aggregates <- MCAggregates
  MaxEntries = 2
  MaxBindings = 2
  MaxFailures = 1
  \* Dag
  Ids = {1, 2, 3}
  TypeOf <- MCTypeOf
  KindOf <- MCKindOf
  KeysOf <- MCKeysOf
  Cels = {"none", "when"}
  MaxResources = 3
  \* LineDiff
  Lines = {"x", "y"}
  MaxLines = 4
  \* ChainView
  Chains <- MCChains
  Missing = {"gone"}
  Opened = "a"
  Panels = {"p", "q"}
  MaxLoads = 2
  \* VirtualGrid
  MaxItems = 6
  MaxCols = 3
  Heights = {0, 5}
  ItemHeight = 3
  RowGap = 1
  Overscan = 1
  \* Catalog
  Rgds <- MCRgds
  Queries <- MCQueries
  Sorts = {"complexity", "name"}
  StatusFilters = {"all"}
  MAX_PRESETS = 1
  \* InstanceList
  Instances <- MCInstances
  Searches <- MCSearches
  PAGE_SIZE = 1
  \* Revisions
  RevisedRgds = {"app", "db"}
  MaxRevision = 2
  ChangeBlocks <- MCChangeBlocks
  \* EventsPage
  KubeEvents <- MCKubeEvents
  EventRgds = {"", "a"}
  EventInstances = {"", "x"}
  MAX_EVENTS = 1
  EVENTS_PAGE = 1
  STUCK_THRESHOLD = 1
  BURST_THRESHOLD = 0
  \* FleetPage
  FleetContexts = {"aaa", "bb", "c", "d"}
  ClusterOf <- MCClusterOf
  NameLength <- MCNameLength
  ClusterHealth = {"healthy"}
  FleetKinds = {}
  \* RgdPage
  RgdNames = {"a", "b"}
  NamespaceNames = {"ns"}
  InstanceNames = {"x"}
  MaxMoves = 2
  \* Overview
  AlertKeys = {"x"}
  RgdOf <- MCRgdOf
  CreatedAt <- MCCreatedAt
  STUCK_AFTER = 1
  MAX_SAMPLES = 1
  \* Browser
  BrowserContexts = {"a", "b"}
  MaxSwitches = 3
  \* NodePanel
  PanelNodes = {"a", "r", "i", "c"}
  PanelNodeType <- MCPanelNodeType
  SecretResources = {"a", "r", "c1"}
  ItemsOf <- MCItemsOf
  \* Author
  Designs = {"starter", "mine"}
  STARTER = "starter"
  \* Designer
  IdTexts = {"a"}
  BodyTexts = {"spec", "nested"}
  RowTexts = {"t"}
  RefTexts = {"x"}
  Exprs = {"quoted"}
  Quoted = {"quoted"}
  MaxParts = 1
  MaxRows = 2
INVARIANTS
  HealthAgrees
  
  DagIsRight
  DiffIsMinimal
  UnfoldingEnds
  WindowCoversView
  CatalogKeepsCount
  TableIsConsistent
  GraphShowsSelected
  NewestAreKept
  EveryContextOnOneCard
  PageSettles
  StalenessIsTold
  LayoutFollowsServer
  ItemShowsItself
  ImportKeepsDesign
PROPERTIES
  SecretsShownOnRequest
  DraftCatchesUp
CHECK_DEADLOCK FALSE
